---- MODULE Spec2Model ----
(***************************************************************************)
(* Model of the reference-context pipeline of the dataset generator        *)
(* backend: query sanitisation, relevance ranking, the two-partition       *)
(* cache and the context builders that orchestrate them.                   *)
(*                                                                         *)
(* Strings are sequences of one-character strings.  JavaScript values that *)
(* are not strings are records [type |-> ...].                             *)
(***************************************************************************)
EXTENDS Integers, Sequences, FiniteSets, TLC

VARIABLES
    sanIn,        \* sanitizeSearchQuery: the argument
    sanOut,       \* sanitizeSearchQuery: the returned string, or NotRun
    rkIn,         \* ranking: [fn, datasets, topic, description]
    rkOut,        \* ranking: the returned list, or NotRun
    now,          \* Date.now() in seconds
    ticks,        \* number of clock advances so far
    searchCache,  \* cacheService.searchCache: key -> [v, t, at]
    datasetCache, \* cacheService.datasetCache: key -> [v, t, at]
    lastOp,       \* the last two cache API calls and what they returned
    req,          \* the requests in flight: id -> request record
    fnIn,         \* one call of a function: [fn, a1, a2, up]
    fnOut,        \* what the call returned or threw, or NotRun
    gen,          \* the POST /api/generate request and how far it has got
    saved,        \* the dataset documents saved so far
    deleted,      \* the answer to the last DELETE /api/datasets/:id, or NotRun
    cli           \* the Kaggle CLI commands and timers still running

sanVars   == <<sanIn, sanOut>>
rkVars    == <<rkIn, rkOut>>
cacheVars == <<now, ticks, searchCache, datasetCache>>
fnVars    == <<fnIn, fnOut>>
genVars   == <<gen, saved, deleted>>
vars      == <<sanIn, sanOut, rkIn, rkOut, now, ticks, searchCache,
               datasetCache, lastOp, req, fnIn, fnOut, gen, saved, deleted, cli>>

NotRun == [type |-> "notrun"]

(***************************************************************************)
(* JavaScript values and strings                                           *)
(***************************************************************************)
JsNull      == [type |-> "null"]
JsUndefined == [type |-> "undefined"]
JsNumber(n) == [type |-> "number", n |-> n]
JsString(s) == [type |-> "string", chars |-> s]

\* JavaScript truthiness, as in if (cached)
Truthy(v) ==
    CASE v.type = "null"      -> FALSE
      [] v.type = "undefined" -> FALSE
      [] v.type = "number"    -> v.n # 0
      [] v.type = "string"    -> v.chars # <<>>
      [] v.type = "boolean"   -> v.b
      [] OTHER                -> TRUE

\* what a call gives: the value it returns, or the error it throws
Ret(v) == [threw |-> FALSE, value |-> v]
Threw  == [threw |-> TRUE]

LowerLetters == {"a","b","c","d","e","f","g","h","i","j","k","l","m",
                 "n","o","p","q","r","s","t","u","v","w","x","y","z"}
UpperLetters == {"A","B","C","D","E","F","G","H","I","J","K","L","M",
                 "N","O","P","Q","R","S","T","U","V","W","X","Y","Z"}
Digits       == {"0","1","2","3","4","5","6","7","8","9"}
\* the characters the regular expression class \s and String.trim() treat
\* as white space, as far as the model's alphabet goes
WhiteSpace   == {" ", "\t", "\n", "\r"}

UpperToLower ==
    [c \in UpperLetters |->
        CASE c = "A" -> "a" [] c = "B" -> "b" [] c = "C" -> "c" [] c = "D" -> "d"
          [] c = "E" -> "e" [] c = "F" -> "f" [] c = "G" -> "g" [] c = "H" -> "h"
          [] c = "I" -> "i" [] c = "J" -> "j" [] c = "K" -> "k" [] c = "L" -> "l"
          [] c = "M" -> "m" [] c = "N" -> "n" [] c = "O" -> "o" [] c = "P" -> "p"
          [] c = "Q" -> "q" [] c = "R" -> "r" [] c = "S" -> "s" [] c = "T" -> "t"
          [] c = "U" -> "u" [] c = "V" -> "v" [] c = "W" -> "w" [] c = "X" -> "x"
          [] c = "Y" -> "y" [] c = "Z" -> "z"]

\* String.prototype.toLowerCase
ToLowerCase(s) ==
    [i \in 1..Len(s) |-> IF s[i] \in UpperLetters THEN UpperToLower[s[i]] ELSE s[i]]

\* String.prototype.trim: the part from the first to the last character
\* that is not white space
Trim(s) ==
    LET solid == {i \in 1..Len(s) : s[i] \notin WhiteSpace}
    IN IF solid = {} THEN <<>>
       ELSE SubSeq(s, CHOOSE i \in solid : \A j \in solid : i <= j,
                      CHOOSE i \in solid : \A j \in solid : i >= j)

\* String.prototype.substring(0, n)
Substring0(s, n) == IF Len(s) <= n THEN s ELSE SubSeq(s, 1, n)

\* String.prototype.includes
Includes(s, sub) ==
    \E i \in 0..(Len(s) - Len(sub)) :
        \A j \in 1..Len(sub) : s[i + j] = sub[j]

\* String.prototype.split(/\s+/): the pieces between maximal runs of white
\* space; a string that starts or ends with white space yields an empty
\* first or last piece, and the empty string yields one empty piece
RECURSIVE SplitWs(_, _, _)
SplitWs(s, cur, inGap) ==
    IF s = <<>> THEN <<cur>>
    ELSE IF Head(s) \in WhiteSpace
         THEN IF inGap THEN SplitWs(Tail(s), cur, TRUE)
                       ELSE <<cur>> \o SplitWs(Tail(s), <<>>, TRUE)
         ELSE SplitWs(Tail(s), Append(cur, Head(s)), FALSE)

Split(s) == SplitWs(s, <<>>, FALSE)

\* Array.prototype.filter
FilterSeq(s, P(_)) == SelectSeq(s, P)

Min(a, b) == IF a < b THEN a ELSE b
Max(a, b) == IF a > b THEN a ELSE b

\* sequences over S of length at most n
SeqsUpTo(S, n) == UNION {[1..k -> S] : k \in 0..n}

Rep(c, n) == [i \in 1..n |-> c]

\* texts used as topics, titles and descriptions
sShop     == <<"s","h","o","p">>
sShopCap  == <<"S","h","o","p">>
sShopData == <<"s","h","o","p"," ","d","a","t","a">>
sCats     == <<"c","a","t","s">>
sAB       == <<"a"," ","b">>

(***************************************************************************)
(* utils/kaggleHelpers.js: sanitizeSearchQuery                             *)
(***************************************************************************)
QueryCap == 200

\* the characters /[^a-zA-Z0-9\s\-_,]/g leaves in place
SanitizeKeeps(c) ==
    \/ c \in LowerLetters \/ c \in UpperLetters \/ c \in Digits
    \/ c \in WhiteSpace
    \/ c \in {"-", "_", ","}

sanitizeSearchQuery(query) ==
    IF query.type # "string" \/ query.chars = <<>>
    THEN <<>>
    ELSE Substring0(Trim(FilterSeq(query.chars, SanitizeKeeps)), QueryCap)

(***************************************************************************)
(* utils/kaggleHelpers.js: inferColumnType                                 *)
(***************************************************************************)
JsBoolean(b) == [type |-> "boolean", b |-> b]

\* the decimal digits of a natural number
RECURSIVE NatToChars(_)
NatToChars(n) ==
    LET d == <<"0","1","2","3","4","5","6","7","8","9">>[(n % 10) + 1]
    IN IF n < 10 THEN <<d>> ELSE NatToChars(n \div 10) \o <<d>>

\* String(v) for the values a column holds
ToStr(v) ==
    CASE v.type = "string"    -> v.chars
      [] v.type = "number"    -> IF v.n < 0 THEN <<"-">> \o NatToChars(0 - v.n)
                                 ELSE NatToChars(v.n)
      [] v.type = "boolean"   -> IF v.b THEN <<"t","r","u","e">> ELSE <<"f","a","l","s","e">>
      [] v.type = "null"      -> <<"n","u","l","l">>
      [] OTHER                -> <<"u","n","d","e","f","i","n","e","d">>

AllDigits(s, from, to) == \A i \in from..to : s[i] \in Digits

\* /^(true|false|yes|no|0|1)$/i
booleanPattern(s) ==
    ToLowerCase(s) \in {<<"t","r","u","e">>, <<"f","a","l","s","e">>, <<"y","e","s">>, <<"n","o">>,
                        <<"0">>, <<"1">>}

\* a number pattern without the anchor at the end
numberPatternPrefix(s) == s # <<>> /\ s[1] \in Digits

\* /^-?\d+\.?\d*$/
numberPattern(s) ==
    LET body == IF s # <<>> /\ s[1] = "-" THEN Tail(s) ELSE s
        dots == {i \in 1..Len(body) : body[i] = "."}
    IN /\ body # <<>>
       /\ body[1] \in Digits
       /\ Cardinality(dots) <= 1
       /\ \A i \in 1..Len(body) : body[i] \in Digits \/ body[i] = "."

\* /^\d{4}-\d{2}-\d{2}/
datePattern(s) ==
    /\ Len(s) >= 10
    /\ AllDigits(s, 1, 4) /\ s[5] = "-"
    /\ AllDigits(s, 6, 7) /\ s[8] = "-"
    /\ AllDigits(s, 9, 10)

\* /^[^\s@]+@[^\s@]+\.[^\s@]+$/
emailPattern(s) ==
    LET ats == {i \in 1..Len(s) : s[i] = "@"}
    IN /\ Cardinality(ats) = 1
       /\ \A i \in 1..Len(s) : s[i] \notin WhiteSpace
       /\ \E a \in ats :
             /\ a > 1
             /\ \E d \in (a + 2)..(Len(s) - 1) : s[d] = "."

\* /^https?:\/\//
urlPattern(s) ==
    \/ Len(s) >= 7 /\ SubSeq(s, 1, 7) = <<"h","t","t","p",":","/","/">>
    \/ Len(s) >= 8 /\ SubSeq(s, 1, 8) = <<"h","t","t","p","s",":","/","/">>

\* /^[\d\s\-\+\(\)]+$/
phonePattern(s) ==
    /\ s # <<>>
    /\ \A i \in 1..Len(s) :
          s[i] \in Digits \cup WhiteSpace \cup {"-", "+", "(", ")"}

MinPhoneLength == 10

\* a filter that keeps the empty string
ValidValueKeepsEmpty(v) == v.type \notin {"null", "undefined"}

\* v !== null && v !== undefined && v !== ''
ValidValue(v) == v.type \notin {"null", "undefined"} /\ v # JsString(<<>>)

Every(s, P(_)) == \A i \in 1..Len(s) : P(s[i])
Some(s, P(_))  == \E i \in 1..Len(s) : P(s[i])

IsBooleanValue(v) == booleanPattern(ToStr(v))
IsNumberValue(v)  == numberPattern(ToStr(v))
HasDecimal(v)     == Includes(ToStr(v), <<".">>)
IsDateValue(v)    == datePattern(ToStr(v))
IsEmailValue(v)   == emailPattern(ToStr(v))
IsUrlValue(v)     == urlPattern(ToStr(v))
IsPhoneValue(v)   == phonePattern(ToStr(v)) /\ Len(ToStr(v)) >= MinPhoneLength

\* inferColumnType looking only at the first valid value for the any-rules
inferColumnTypeFirstOnly(values) ==
    IF ~Truthy(values) THEN Ret("string")
    ELSE IF values.type # "array" THEN Threw
    ELSE IF values.items = <<>> THEN Ret("string")
    ELSE LET validValues == FilterSeq(values.items, ValidValue)
             first == <<validValues[1]>>
         IN IF validValues = <<>> THEN Ret("string")
            ELSE IF Every(validValues, IsBooleanValue) THEN Ret("boolean")
            ELSE IF Every(validValues, IsNumberValue)
                 THEN Ret(IF Some(validValues, HasDecimal) THEN "float" ELSE "integer")
            ELSE IF Some(first, IsDateValue)  THEN Ret("date")
            ELSE IF Some(first, IsEmailValue) THEN Ret("email")
            ELSE IF Some(first, IsUrlValue)   THEN Ret("url")
            ELSE IF Some(first, IsPhoneValue) THEN Ret("phone")
            ELSE Ret("string")

inferColumnType(values) ==
    IF ~Truthy(values) THEN Ret("string")
    ELSE IF values.type # "array" THEN Threw
    ELSE IF values.items = <<>> THEN Ret("string")
    ELSE LET validValues == FilterSeq(values.items, ValidValue)
         IN IF validValues = <<>> THEN Ret("string")
            ELSE IF Every(validValues, IsBooleanValue) THEN Ret("boolean")
            ELSE IF Every(validValues, IsNumberValue)
                 THEN Ret(IF Some(validValues, HasDecimal) THEN "float" ELSE "integer")
            ELSE IF Some(validValues, IsDateValue)  THEN Ret("date")
            ELSE IF Some(validValues, IsEmailValue) THEN Ret("email")
            ELSE IF Some(validValues, IsUrlValue)   THEN Ret("url")
            ELSE IF Some(validValues, IsPhoneValue) THEN Ret("phone")
            ELSE Ret("string")

(***************************************************************************)
(* JavaScript numbers                                                      *)
(*                                                                         *)
(* The scores are IEEE 754 doubles.  A non-negative double is [m, e], the  *)
(* number m * 2^e, with m odd (or m = 0 and e = 0), so two doubles are     *)
(* equal exactly when the records are.  m is a natural number of up to 53  *)
(* bits, written as its list of 20-bit limbs, least significant first and  *)
(* without leading zero limbs; every operation computes the exact result   *)
(* and rounds it to 53 bits, to nearest, ties to even.  The factors and    *)
(* the divisors of the scores are integers below 1024.                     *)
(***************************************************************************)
LimbBase == 2 ^ 20
\* the whole limbs and the bits left in a count of n bits
LimbsIn(n) == n \div 20
BitsIn(n)  == n % 20

BigTrim(a) ==
    LET solid == {i \in 1..Len(a) : a[i] # 0}
    IN IF solid = {} THEN <<>>
       ELSE SubSeq(a, 1, CHOOSE i \in solid : \A j \in solid : j <= i)

\* a natural number below 2^31, and back
BigOfInt(n) == BigTrim(<<n % LimbBase, n \div LimbBase>>)
BigToInt(a) ==
    (IF Len(a) >= 1 THEN a[1] ELSE 0) + (IF Len(a) >= 2 THEN a[2] * LimbBase ELSE 0)

\* the number whose limbs, before the carries, are s[i] < 2 * LimbBase - 1:
\* a carry enters limb i when a limb below it overflows and every limb in
\* between is full
BigCarried(s) ==
    LET Carry(i) == \E j \in 1..(i - 1) :
                        /\ s[j] >= LimbBase
                        /\ \A l \in (j + 1)..(i - 1) : s[l] = LimbBase - 1
    IN BigTrim([i \in 1..(Len(s) + 1) |->
                   ((IF i <= Len(s) THEN s[i] ELSE 0)
                    + (IF Carry(i) THEN 1 ELSE 0)) % LimbBase])

BigPlus(a, b) ==
    BigCarried([i \in 1..Max(Len(a), Len(b)) |->
                   (IF i <= Len(a) THEN a[i] ELSE 0)
                   + (IF i <= Len(b) THEN b[i] ELSE 0)])

\* a * k, for k < 1024
BigTimes(a, k) ==
    BigCarried([i \in 1..(Len(a) + 1) |->
                   (IF i <= Len(a) THEN (a[i] * k) % LimbBase ELSE 0)
                   + (IF i > 1 THEN (a[i - 1] * k) \div LimbBase ELSE 0)])

\* the limbs i.. of a divided by k, for 0 < k < 1024: long division from the
\* top limb, the quotient q and the remainder r
RECURSIVE BigOverFrom(_, _, _)
BigOverFrom(a, k, i) ==
    IF i > Len(a) THEN [q |-> <<>>, r |-> 0]
    ELSE LET high == BigOverFrom(a, k, i + 1)
             cur  == high.r * LimbBase + a[i]
         IN [q |-> <<cur \div k>> \o high.q, r |-> cur % k]
BigOver(a, k) ==
    LET d == BigOverFrom(a, k, 1) IN [q |-> BigTrim(d.q), r |-> d.r]

BigLess(a, b) ==
    IF Len(a) # Len(b) THEN Len(a) < Len(b)
    ELSE \E i \in 1..Len(a) :
            a[i] < b[i] /\ \A j \in (i + 1)..Len(a) : a[j] = b[j]

\* a * 2^n
BigShl(a, n) ==
    LET At(i) == IF 1 <= i /\ i <= Len(a) THEN a[i] ELSE 0
        cut   == 2 ^ (20 - BitsIn(n))
    IN BigTrim([i \in 1..(Len(a) + LimbsIn(n) + 1) |->
                   (At(i - LimbsIn(n)) % cut) * 2 ^ BitsIn(n)
                   + At(i - LimbsIn(n) - 1) \div cut])
\* the whole part of a / 2^n
BigShr(a, n) ==
    LET At(i) == IF i <= Len(a) THEN a[i] ELSE 0
        cut   == 2 ^ BitsIn(n)
    IN BigTrim([i \in 1..(Len(a) - LimbsIn(n)) |->
                   At(i + LimbsIn(n)) \div cut
                   + (At(i + LimbsIn(n) + 1) % cut) * 2 ^ (20 - BitsIn(n))])
\* the n lowest bits of a are zero
BigLowZero(a, n) ==
    /\ \A i \in 1..Min(LimbsIn(n), Len(a)) : a[i] = 0
    /\ LimbsIn(n) < Len(a) => a[LimbsIn(n) + 1] % 2 ^ BitsIn(n) = 0

\* the number of bits of a
BigBitLen(a) ==
    IF a = <<>> THEN 0
    ELSE 20 * (Len(a) - 1)
         + (CHOOSE k \in 1..20 : 2 ^ (k - 1) <= a[Len(a)] /\ a[Len(a)] < 2 ^ k)
\* how many of the lowest bits of a # 0 are zero
BigTrailingZeros(a) ==
    LET i == CHOOSE j \in 1..Len(a) : a[j] # 0 /\ \A h \in 1..(j - 1) : a[h] = 0
    IN 20 * (i - 1)
       + (CHOOSE k \in 0..19 : a[i] % 2 ^ k = 0 /\ a[i] % 2 ^ (k + 1) # 0)

DZero == [m |-> <<>>, e |-> 0]
\* the double m * 2^e of a mantissa of at most 53 bits
DCanon(m, e) ==
    IF m = <<>> THEN DZero
    ELSE LET z == BigTrailingZeros(m) IN [m |-> BigShr(m, z), e |-> e + z]

\* the double nearest to m * 2^e (plus a little, when inexact), ties to even
DRound53(m, e, inexact) ==
    LET len == BigBitLen(m)
    IN IF len <= 53 THEN DCanon(m, e)
       ELSE LET s    == len - 53
                t    == BigShr(m, s - 1)
                q    == BigShr(t, 1)
                half == t[1] % 2 = 1
                more == inexact \/ ~BigLowZero(m, s - 1)
                odd  == q[1] % 2 = 1
            IN DCanon(IF half /\ (more \/ odd) THEN BigPlus(q, <<1>>) ELSE q,
                      e + s)

\* an integer below 2^31 as a double
DOfInt(n) == DCanon(BigOfInt(n), 0)
\* x * k and x / k for an integer 0 < k < 1024; the division is of the
\* mantissa made 66 bits long, so that the quotient has 56 bits or more
DTimes(x, k) ==
    IF x = DZero THEN DZero ELSE DRound53(BigTimes(x.m, k), x.e, FALSE)
DOver(x, k) ==
    IF x = DZero THEN DZero
    ELSE LET s == 66 - BigBitLen(x.m)
             d == BigOver(BigShl(x.m, s), k)
         IN DRound53(d.q, x.e - s, d.r # 0)
DAlign(x, y) ==
    LET e == Min(x.e, y.e)
    IN [x |-> BigShl(x.m, x.e - e), y |-> BigShl(y.m, y.e - e), e |-> e]
DPlus(x, y) ==
    IF x = DZero THEN y
    ELSE IF y = DZero THEN x
    ELSE LET a == DAlign(x, y) IN DRound53(BigPlus(a.x, a.y), a.e, FALSE)
DLess(x, y) ==
    IF x = y THEN FALSE ELSE LET a == DAlign(x, y) IN BigLess(a.x, a.y)
\* Math.min(x, y)
DMin(x, y) == IF DLess(y, x) THEN y ELSE x
\* Math.round(x), an integer below 2^31: the whole part of x + 1/2
DRoundToInt(x) ==
    IF x.e >= 0 THEN BigToInt(BigShl(x.m, x.e))
    ELSE (BigToInt(BigShr(x.m, (0 - x.e) - 1)) + 1) \div 2
\* let score = 0, then score += t for every term t, in order
RECURSIVE DSumFrom(_, _)
DSumFrom(terms, i) ==
    IF i = 0 THEN DZero ELSE DPlus(DSumFrom(terms, i - 1), terms[i])
DSum(terms) == DSumFrom(terms, Len(terms))
\* numerator / denominator of two integers, the denominator below 1024
DRatio(num, den) == IF num = 0 THEN DZero ELSE DOver(DOfInt(num), den)

(***************************************************************************)
(* Relevance ranking                                                       *)
(*                                                                         *)
(* A candidate is [ref, title, description, downloadCount, voteCount,      *)
(* usability100]; usability100 is usabilityRating in hundredths, so that   *)
(* usabilityRating is the double nearest to usability100 / 100, which is   *)
(* what parseFloat makes of the two decimals.  A score is a double.        *)
(***************************************************************************)
TopK == 3

\* b.relevanceScore - a.relevanceScore <= 0, and = 0
ScoreGeq(a, b) == ~DLess(a, b)
ScoreEq(a, b)  == a = b

\* Array.prototype.filter(...).length over a list of words
CountIf(ws, P(_)) == Len(SelectSeq(ws, P))

\* Array.prototype.sort((a, b) => b.relevanceScore - a.relevanceScore):
\* the sort is stable (ECMAScript 2019), so an element goes after every
\* element whose score is at least its own
RECURSIVE InsertDesc(_, _)
InsertDesc(sorted, x) ==
    IF sorted = <<>> THEN <<x>>
    ELSE IF ScoreGeq(Head(sorted).relevanceScore, x.relevanceScore)
         THEN <<Head(sorted)>> \o InsertDesc(Tail(sorted), x)
         ELSE <<x>> \o sorted

\* the same sort without the stability guarantee: an element goes before
\* the elements of equal score
RECURSIVE InsertDescUnstable(_, _)
InsertDescUnstable(sorted, x) ==
    IF sorted = <<>> THEN <<x>>
    ELSE IF ScoreGeq(Head(sorted).relevanceScore, x.relevanceScore)
            /\ ~ScoreEq(Head(sorted).relevanceScore, x.relevanceScore)
         THEN <<Head(sorted)>> \o InsertDescUnstable(Tail(sorted), x)
         ELSE <<x>> \o sorted

RECURSIVE SortFrom(_, _)
SortFrom(done, rest) ==
    IF rest = <<>> THEN done
    ELSE SortFrom(InsertDesc(done, Head(rest)), Tail(rest))

RECURSIVE SortFromUnstable(_, _)
SortFromUnstable(done, rest) ==
    IF rest = <<>> THEN done
    ELSE SortFromUnstable(InsertDescUnstable(done, Head(rest)), Tail(rest))

SortByScoreDescUnstable(scored) == SortFromUnstable(<<>>, scored)

SortByScoreDesc(scored) == SortFrom(<<>>, scored)

\* Array.prototype.slice(0, n)
Slice0(s, n) == IF Len(s) <= n THEN s ELSE SubSeq(s, 1, n)

\* (Math.min(downloadCount / 1000, 10) + Math.min(voteCount / 100, 10)) / 20
PopularityScore(d) ==
    DOver(DPlus(DMin(DRatio(d.downloadCount, 1000), DOfInt(10)),
                DMin(DRatio(d.voteCount, 100), DOfInt(10))), 20)

\* dataset.usabilityRating
UsabilityRating(d) == DRatio(d.usability100, 100)

\* services/referenceContextBuilder.js: the score of one dataset, the sum
\* of its five terms in the order of the code (the first is the += 40 of
\* the phrase match, or nothing), then Math.round(score * 100) / 100
RelevanceScoreOf(d, topicLower, topicWords) ==
    LET titleLower   == ToLowerCase(d.title)
        descLower    == ToLowerCase(d.description)
        n            == Max(Len(topicWords), 1)
        InTitle(w)   == Includes(titleLower, w)
        InDesc(w)    == Includes(descLower, w)
        titleMatches == CountIf(topicWords, InTitle)
        descMatches  == CountIf(topicWords, InDesc)
        score == DSum(<<IF Includes(titleLower, topicLower)
                           THEN DOfInt(40) ELSE DZero,
                        DTimes(DRatio(titleMatches, n), 25),
                        DTimes(DRatio(descMatches, n), 15),
                        DTimes(PopularityScore(d), 10),
                        DTimes(UsabilityRating(d), 10)>>)
    IN DRatio(DRoundToInt(DTimes(score, 100)), 100)

LongWord(w) == Len(w) > 2

ScoreAllByRelevance(datasets, topic) ==
    LET topicLower == ToLowerCase(topic)
        topicWords == FilterSeq(Split(topicLower), LongWord)
    IN [i \in 1..Len(datasets) |->
           [ref |-> datasets[i].ref, title |-> datasets[i].title,
            description |-> datasets[i].description,
            downloadCount |-> datasets[i].downloadCount,
            voteCount |-> datasets[i].voteCount,
            usability100 |-> datasets[i].usability100,
            relevanceScore |-> RelevanceScoreOf(datasets[i], topicLower, topicWords)]]

\* the same function with the sort left out
rankDatasetsByRelevanceNoSort(datasets, topic) ==
    IF ~Truthy(datasets) THEN Ret(<<>>)
    ELSE IF datasets.type # "array" THEN Threw
    ELSE IF datasets.items = <<>> THEN Ret(<<>>)
    ELSE Ret(Slice0(ScoreAllByRelevance(datasets.items, topic), TopK))

\* rankDatasetsByRelevance without the cut to the first TopK
rankDatasetsByRelevanceAll(datasets, topic) ==
    IF ~Truthy(datasets) THEN Ret(<<>>)
    ELSE IF datasets.type # "array" THEN Threw
    ELSE IF datasets.items = <<>> THEN Ret(<<>>)
    ELSE Ret(SortByScoreDesc(ScoreAllByRelevance(datasets.items, topic)))

rankDatasetsByRelevance(datasets, topic) ==
    IF ~Truthy(datasets) THEN Ret(<<>>)
    ELSE IF datasets.type # "array" THEN Threw
    ELSE IF datasets.items = <<>> THEN Ret(<<>>)
    ELSE Ret(Slice0(SortByScoreDesc(ScoreAllByRelevance(datasets.items, topic)), TopK))

\* utils/kaggleHelpers.js: calculateSimilarity
calculateSimilarity(str1, str2) ==
    IF str1 = <<>> \/ str2 = <<>> THEN DZero
    ELSE LET words1 == Split(ToLowerCase(str1))
             words2 == Split(ToLowerCase(str2))
             InWords2(w) == \E j \in 1..Len(words2) : words2[j] = w
         IN DRatio(CountIf(words1, InWords2), Max(Len(words1), Len(words2)))

\* services/kaggleService.js: the score of one dataset (not rounded), the
\* sum of its three terms in the order of the code
DownloadScoreOf(d, searchText) ==
    DSum(<<DTimes(calculateSimilarity(d.title, searchText), 40),
           DTimes(PopularityScore(d), 30),
           DTimes(UsabilityRating(d), 30)>>)

ScoreAllForDownload(datasets, topic, description) ==
    LET searchText == ToLowerCase(topic \o <<" ">> \o description)
    IN [i \in 1..Len(datasets) |->
           [ref |-> datasets[i].ref, title |-> datasets[i].title,
            description |-> datasets[i].description,
            downloadCount |-> datasets[i].downloadCount,
            voteCount |-> datasets[i].voteCount,
            usability100 |-> datasets[i].usability100,
            relevanceScore |-> DownloadScoreOf(datasets[i], searchText)]]

rankDatasets(datasets, topic, description) ==
    IF ~Truthy(datasets) THEN Ret(<<>>)
    ELSE IF datasets.type # "array" THEN Threw
    ELSE IF datasets.items = <<>> THEN Ret(<<>>)
    ELSE Ret(Slice0(SortByScoreDesc(ScoreAllForDownload(datasets.items, topic, description)),
                TopK))

JsArray(items) == [type |-> "array", items |-> items]

(***************************************************************************)
(* utils/cacheService.js: two node-cache stores                            *)
(*                                                                         *)
(* A store is a function from keys to entries [v, t, at]: the value, the   *)
(* expiry time (0: never) and, for the properties only, the time of the    *)
(* set.  Times are in seconds.                                             *)
(***************************************************************************)
SearchStdTTL       == 3600
SearchCheckPeriod  == 600
DatasetStdTTL      == 86400
DatasetCheckPeriod == 3600

\* constructor: the options of the two stores
CacheOptionsSwapped ==
    [search  |-> [stdTTL |-> DatasetStdTTL, checkperiod |-> SearchCheckPeriod],
     dataset |-> [stdTTL |-> SearchStdTTL, checkperiod |-> DatasetCheckPeriod]]

CacheOptions ==
    [search  |-> [stdTTL |-> SearchStdTTL, checkperiod |-> SearchCheckPeriod],
     dataset |-> [stdTTL |-> DatasetStdTTL, checkperiod |-> DatasetCheckPeriod]]

EmptyStore == <<>>
NoEntry    == [present |-> FALSE]
EntryOf(store, key) ==
    IF key \in DOMAIN store
    THEN [present |-> TRUE, v |-> store[key].v, t |-> store[key].t,
          at |-> store[key].at]
    ELSE NoEntry

\* node-cache _check: an entry is dead once its expiry time is in the past
NcExpired(e, time) == e.t # 0 /\ e.t < time

\* node-cache get: the value of a live entry, undefined otherwise
NcGet(store, key, time) ==
    IF key \in DOMAIN store /\ ~NcExpired(store[key], time)
    THEN store[key].v
    ELSE JsUndefined

\* node-cache get deletes the entry it finds dead
NcAfterGet(store, key, time) ==
    IF key \in DOMAIN store /\ NcExpired(store[key], time)
    THEN [k \in DOMAIN store \ {key} |-> store[k]]
    ELSE store

\* node-cache set with the store's stdTTL
NcSet(store, key, value, time, stdTTL) ==
    [k \in DOMAIN store \cup {key} |->
        IF k = key
        THEN [v |-> value, t |-> IF stdTTL = 0 THEN 0 ELSE time + stdTTL,
              at |-> time]
        ELSE store[k]]

\* node-cache _checkData: the periodic check deletes every dead entry
NcSweep(store, time) ==
    [k \in {x \in DOMAIN store : ~NcExpired(store[x], time)} |-> store[k]]

SearchPrefix   == <<"s","e","a","r","c","h",":">>
DatasetPrefix  == <<"d","a","t","a","s","e","t",":">>

\* a search key made of the topic and of the description
generateSearchKeyDescribed(topic, description) ==
    SearchPrefix \o Trim(ToLowerCase(topic \o <<" ">> \o description))

\* generateSearchKey(topic, description): the description is not used
generateSearchKey(topic, description) ==
    SearchPrefix \o Trim(ToLowerCase(topic))

generateDatasetKey(datasetRef) == DatasetPrefix \o datasetRef

\* getSearchResults looking up the raw topic
getSearchResultsRawKey(topic, description, store, time) ==
    LET cached == NcGet(store, SearchPrefix \o topic, time)
    IN IF Truthy(cached) THEN cached ELSE JsNull

\* getSearchResults / getDatasetSample: a hit only if (cached) is truthy
getSearchResults(topic, description, store, time) ==
    LET cached == NcGet(store, generateSearchKey(topic, description), time)
    IN IF Truthy(cached) THEN cached ELSE JsNull

getDatasetSample(datasetRef, store, time) ==
    LET cached == NcGet(store, generateDatasetKey(datasetRef), time)
    IN IF Truthy(cached) THEN cached ELSE JsNull

\* setSearchResults keyed by the raw topic
setSearchResultsRawKey(topic, description, results, store, time) ==
    NcSet(store, SearchPrefix \o topic, results, time,
          CacheOptions.search.stdTTL)

\* setSearchResults that stores the result without its columns
setSearchResultsPartly(topic, description, results, store, time) ==
    NcSet(store, generateSearchKey(topic, description),
          [results EXCEPT !.columns = <<>>], time, CacheOptions.search.stdTTL)

setSearchResults(topic, description, results, store, time) ==
    NcSet(store, generateSearchKey(topic, description), results, time,
          CacheOptions.search.stdTTL)

\* setDatasetSample that leaves its entry alone in the store
setDatasetSampleAlone(datasetRef, sample, store, time) ==
    NcSet(EmptyStore, generateDatasetKey(datasetRef), sample, time,
          CacheOptions.dataset.stdTTL)

\* setDatasetSample keyed by the name of the sampled file
setDatasetSampleByFile(datasetRef, sample, store, time) ==
    NcSet(store, DatasetPrefix \o sample.fileName, sample, time,
          CacheOptions.dataset.stdTTL)

setDatasetSample(datasetRef, sample, store, time) ==
    NcSet(store, generateDatasetKey(datasetRef), sample, time,
          CacheOptions.dataset.stdTTL)


(***************************************************************************)
(* Metadata fetchers                                                       *)
(*                                                                         *)
(* A fetcher takes its arguments and what the upstream did, up, a record   *)
(* [kind, ...]: "error" (network failure, non-zero exit), "timeout" (the   *)
(* race against the timer was lost), "malformed" (a payload the code       *)
(* cannot parse), "empty" (a well-formed payload with nothing in it) or    *)
(* "ok" with the payload.  It yields Ret(value) or Threw.                  *)
(***************************************************************************)
\* try { body } catch (error) { return fallback }
Catch(body, fallback) == IF body.threw THEN Ret(fallback) ELSE body

\* try { body } catch (error) { throw error }
Rethrow(body) == body

UpFailed(up) == up.kind \in {"error", "timeout", "malformed"}

\* services/kaggleService.js: searchKaggleDatasets without its try/catch
searchKaggleDatasetsBody(topic, description, up) ==
    LET query == sanitizeSearchQuery(JsString(topic \o <<" ">> \o description))
    IN IF query = <<>> THEN Ret(JsArray(<<>>))
       ELSE CASE UpFailed(up)      -> Threw
              [] up.kind = "empty" -> Ret(JsArray(<<>>))
              [] OTHER             -> Ret(JsArray(up.datasets))

\* searchKaggleDatasets with the catch left out
searchKaggleDatasetsNoCatch(topic, description, up) ==
    searchKaggleDatasetsBody(topic, description, up)

searchKaggleDatasets(topic, description, up) ==
    Catch(searchKaggleDatasetsBody(topic, description, up), JsArray(<<>>))

\* services/kaggleMetadataService: searchKaggleMetadata; the list output has
\* no subtitle, so every description is ''
StripDescription(datasets) ==
    [i \in 1..Len(datasets) |-> [datasets[i] EXCEPT !.description = <<>>]]

searchKaggleMetadataBody(topic, up) ==
    LET query == sanitizeSearchQuery(topic)
    IN IF query = <<>> THEN Ret(JsArray(<<>>))
       ELSE CASE UpFailed(up)      -> Threw
              [] up.kind = "empty" -> Ret(JsArray(<<>>))
              [] OTHER             -> Ret(JsArray(StripDescription(up.datasets)))

searchKaggleMetadata(topic, up) ==
    Catch(searchKaggleMetadataBody(topic, up), JsArray(<<>>))

\* does the call reach the Kaggle CLI at all
SearchReachesCli(query) == sanitizeSearchQuery(query) # <<>>

\* services/kaggleService.js: downloadDataset logs and rethrows
downloadDatasetBody(datasetRef, up) ==
    IF up.kind = "ok" THEN Ret([type |-> "dir", ref |-> datasetRef]) ELSE Threw

\* a download that resolves with the directory when its timer fires
downloadDatasetSwallowsTimeout(datasetRef, up) ==
    IF up.kind = "timeout"
    THEN Ret([type |-> "dir", ref |-> datasetRef])
    ELSE downloadDatasetBody(datasetRef, up)

downloadDataset(datasetRef, up) == Rethrow(downloadDatasetBody(datasetRef, up))

\* services/kaggleService.js: sampleDatasetFiles; up.sample is the sample of
\* the first file that parses
MaxSampleRows == 50

sampleDatasetFilesBody(datasetDir, up) ==
    CASE up.kind \in {"error", "timeout"} -> Threw
      [] up.kind \in {"empty", "malformed"} -> Ret(JsNull)
      [] OTHER ->
           Ret([type |-> "sample", fileName |-> up.sample.fileName,
                totalRows |-> up.sample.totalRows,
                sampleRows |-> Min(up.sample.totalRows, MaxSampleRows),
                columns |-> up.sample.columns])

sampleDatasetFiles(datasetDir, up) ==
    Catch(sampleDatasetFilesBody(datasetDir, up), JsNull)

\* services/openDatasetService: searchHuggingFaceDatasets
searchHuggingFaceDatasetsBody(topic, up) ==
    CASE UpFailed(up)      -> Threw
      [] up.kind = "empty" -> Ret(JsArray(<<>>))
      [] OTHER             -> Ret(JsArray(up.ids))

searchHuggingFaceDatasets(topic, up) ==
    Catch(searchHuggingFaceDatasetsBody(topic, up), JsArray(<<>>))

\* the part of a dataset id after its last "/": id.split('/').pop()
RECURSIVE AfterLastSlash(_)
AfterLastSlash(id) ==
    IF \E i \in 1..Len(id) : id[i] = "/"
    THEN AfterLastSlash(Tail(id))
    ELSE id

\* services/openDatasetService: fetchHuggingFaceSamples
\* the default of the parameter limit: data.rows.slice(0, limit)
HfSampleLimit == 20

fetchHuggingFaceSamplesBody(datasetId, up) ==
    CASE UpFailed(up)      -> Threw
      [] up.kind = "empty" -> Ret(JsNull)
      [] OTHER ->
           Ret([type |-> "hfsample", sourceType |-> "huggingface",
                datasetName |-> AfterLastSlash(datasetId),
                datasetId |-> datasetId,
                totalRows |-> Min(up.sample.totalRows, HfSampleLimit),
                columns |-> up.sample.columns])

fetchHuggingFaceSamples(datasetId, up) ==
    Catch(fetchHuggingFaceSamplesBody(datasetId, up), JsNull)

\* services/kaggleApiService: fetchDatasetMetadata logs and rethrows
fetchDatasetMetadataBody(datasetRef, up) ==
    IF up.kind = "ok" THEN Ret([type |-> "metadata", title |-> up.title]) ELSE Threw

fetchDatasetMetadata(datasetRef, up) ==
    Rethrow(fetchDatasetMetadataBody(datasetRef, up))

(***************************************************************************)
(* Dataset previews                                                        *)
(*                                                                         *)
(* A preview is [fileName, totalRows, columns, sampleRows, rowColumns,     *)
(* description]: columns are the column names, sampleRows the number of    *)
(* generated rows and rowColumns the column names of those rows.           *)
(***************************************************************************)
sProductsCsv == <<"p","r","o","d","u","c","t","s",".","c","s","v">>
sPostsCsv    == <<"p","o","s","t","s",".","c","s","v">>
sDataCsv     == <<"d","a","t","a",".","c","s","v">>
sEcommerce   == <<"e","c","o","m","m","e","r","c","e">>
sProduct     == <<"p","r","o","d","u","c","t">>
sSocial      == <<"s","o","c","i","a","l">>
sMedia       == <<"m","e","d","i","a">>
sPost        == <<"p","o","s","t">>

GeneratedRows == 10
MockTotalRows == 15
DefaultTotalRows == 20

\* extractColumnsFromMetadata: the file's own columns, else columns guessed
\* from the file name
extractColumnsFromMetadata(file) ==
    IF file.columns # <<>> THEN file.columns
    ELSE LET fileName == ToLowerCase(file.name)
         IN IF Includes(fileName, sEcommerce) \/ Includes(fileName, sProduct)
            THEN <<"product_name", "category", "price", "rating">>
            ELSE IF Includes(fileName, sSocial) \/ Includes(fileName, sMedia)
            THEN <<"post_id", "content", "likes", "shares">>
            ELSE <<"id", "name", "value">>

\* createMockPreview: a made-up preview chosen from the words of the
\* dataset reference
createMockPreview(datasetRef) ==
    LET refLower == ToLowerCase(datasetRef)
        isShop   == \/ Includes(refLower, sEcommerce)
                    \/ Includes(refLower, sProduct)
                    \/ Includes(refLower, sShop)
        isSocial == \/ Includes(refLower, sSocial)
                    \/ Includes(refLower, sMedia)
                    \/ Includes(refLower, sPost)
        fileName == IF isShop THEN sProductsCsv
                    ELSE IF isSocial THEN sPostsCsv ELSE sDataCsv
        columns  == IF isShop
                    THEN <<"product_id", "product_name", "category", "price",
                           "stock", "rating">>
                    ELSE IF isSocial
                    THEN <<"post_id", "author", "content", "likes", "shares",
                           "engagement_rate">>
                    ELSE <<"id", "name", "value", "status">>
    IN [type |-> "preview", fileName |-> fileName, totalRows |-> MockTotalRows,
        columns |-> columns, sampleRows |-> GeneratedRows,
        rowColumns |-> extractColumnsFromMetadata([name |-> fileName,
                                                   columns |-> <<>>]),
        description |-> "Mock preview generated from dataset reference"]

\* the scraped page: "error"/"timeout" (the request failed), "nostate" (no
\* embedded page data), "malformed" (the embedded JSON does not parse),
\* "empty" (no files), "nodata" (no CSV/JSON file), "ok" with the data file
PreviewFailed(up) == up.kind # "ok"

\* services/kagglePreviewService: getDatasetPreview (scraping the public page)
getDatasetPreviewScrape(datasetRef, up) ==
    IF PreviewFailed(up) THEN Ret(createMockPreview(datasetRef))
    ELSE Ret([type |-> "preview", fileName |-> up.file.name,
              totalRows |-> IF up.file.totalRows = 0 THEN DefaultTotalRows
                            ELSE up.file.totalRows,
              columns |-> extractColumnsFromMetadata(up.file),
              sampleRows |-> GeneratedRows,
              rowColumns |-> extractColumnsFromMetadata(up.file),
              description |-> "scraped"])

\* services/kaggleApiService: getDatasetPreview (Kaggle API); up holds what
\* the three requests did: metadata, file list, file sample
\* parseCSVSample and parseJSONSample keep the first 20 rows of the file,
\* and totalRows counts the rows kept
PreviewRowLimit == 20

getDatasetPreviewApiBody(datasetRef, up) ==
    LET metadata == fetchDatasetMetadata(datasetRef, up.meta)
    IN IF metadata.threw THEN Threw
       ELSE IF up.files.kind # "ok" THEN Ret(JsNull)
       ELSE IF up.sample.kind # "ok" THEN Ret(JsNull)
       ELSE Ret([type |-> "preview", fileName |-> up.files.name,
                 totalRows |-> Min(up.sample.totalRows, PreviewRowLimit),
                 columns |-> up.sample.columns,
                 sampleRows |-> Min(up.sample.totalRows, PreviewRowLimit),
                 rowColumns |-> up.sample.columns,
                 description |-> "api"])

getDatasetPreviewApi(datasetRef, up) ==
    Catch(getDatasetPreviewApiBody(datasetRef, up), JsNull)

(***************************************************************************)
(* Reference assembly                                                      *)
(***************************************************************************)
sUser                == <<"u","s","e","r">>
sCustomer            == <<"c","u","s","t","o","m","e","r">>
sAccount             == <<"a","c","c","o","u","n","t">>
sSales               == <<"s","a","l","e","s">>
sTransaction         == <<"t","r","a","n","s","a","c","t","i","o","n">>
sOrder               == <<"o","r","d","e","r">>
sId                  == <<"i","d">>
sTimestamp           == <<"t","i","m","e","s","t","a","m","p">>
sCreated             == <<"c","r","e","a","t","e","d">>
sUpdated             == <<"u","p","d","a","t","e","d">>
cUserId              == <<"u","s","e","r","_","i","d">>
cPrice               == <<"p","r","i","c","e">>
cName                == <<"n","a","m","e">>
cTitle               == <<"t","i","t","l","e">>
KaggleMetadataPrefix == <<"k","a","g","g","l","e","_","m","e","t","a","d","a","t","a",":">>
HfSamplesPrefix      == <<"h","f","_","s","a","m","p","l","e","s",":">>

\* utils/kaggleHelpers.js: normalizeDatasetRef throws unless the reference
\* is owner/name; the url is the base followed by the reference
SlashCount(ref) == Cardinality({i \in 1..Len(ref) : ref[i] = "/"})

normalizeDatasetRef(ref) ==
    IF ref = <<>> \/ SlashCount(ref) # 1
    THEN Threw
    ELSE Ret([ref |-> ref,
              url |-> [base |-> "https://www.kaggle.com/datasets/", ref |-> ref]])

\* identifiers and timestamps are left out of the reference's columns
RelevantColumn(name) ==
    LET n == ToLowerCase(name)
    IN ~Includes(n, sId) /\ ~Includes(n, sTimestamp)
       /\ ~Includes(n, sCreated) /\ ~Includes(n, sUpdated)

ReferenceRows == 5

\* services/kaggleService.js: buildReferenceContext(sample, datasetInfo)
kaggleBuildReferenceContext(sample, datasetInfo) ==
    IF ~Truthy(sample) THEN Ret(JsNull)
    ELSE LET norm == normalizeDatasetRef(datasetInfo.ref)
         IN IF norm.threw THEN Threw
            ELSE Ret([type |-> "reference",
                      datasetName |-> datasetInfo.title,
                      datasetRef |-> datasetInfo.ref,
                      datasetUrl |-> norm.value.url,
                      fileName |-> sample.fileName,
                      totalRows |-> sample.totalRows,
                      sampleSize |-> sample.sampleRows,
                      columns |-> FilterSeq(sample.columns, RelevantColumn),
                      sampleRows |-> Min(sample.sampleRows, ReferenceRows)])

\* kaggleMetadataService: buildRelevanceSummary, as the parts it joins
buildRelevanceSummary(metadata) ==
    [description |-> Substring0(metadata.description, 100),
     kDownloads  |-> IF metadata.downloadCount > 1000
                     THEN (metadata.downloadCount + 500) \div 1000 ELSE 0,
     highly      |-> DLess(DOfInt(50), metadata.relevanceScore)]

KaggleSource(meta) ==
    [sourceType |-> "kaggle", datasetName |-> meta.title,
     datasetUrl |-> [base |-> "https://www.kaggle.com/datasets/", ref |-> meta.ref],
     relevanceSummary |-> buildRelevanceSummary(meta),
     relevanceScore |-> meta.relevanceScore]

HuggingFaceSource(hfSamples) ==
    [sourceType |-> "huggingface", datasetName |-> hfSamples.datasetName,
     datasetUrl |-> [base |-> "https://huggingface.co/datasets/",
                     ref |-> hfSamples.datasetId],
     relevanceSummary |-> [rows |-> hfSamples.totalRows,
                           columns |-> Len(hfSamples.columns)]]

\* openDatasetService: extractColumnPatterns over the sample rows; a column
\* of the payload is [name, numeric]: numeric when more than half of its
\* values parse as numbers (getValueRange); the rows carry no nulls
extractColumnPatterns(hfSamples) ==
    IF hfSamples.totalRows = 0 THEN <<>>
    ELSE [i \in 1..Len(hfSamples.columns) |->
             [name |-> hfSamples.columns[i].name,
              valueRange |-> hfSamples.columns[i].numeric]]

ValueExamples(hfSamples) ==
    [i \in 1..Len(hfSamples.columns) |-> hfSamples.columns[i].name]

MaxHints      == 10
HintColumns   == 5
Hint(text)    == [text |-> text, columns |-> <<>>]

HasAny(topicLower, words) == \E w \in words : Includes(topicLower, w)

HasRange(pattern) == pattern.valueRange

\* the hints of the four domains, in the order of their tests
CatalogHints == <<Hint("Include product identifiers, names, categories, and pricing"),
                  Hint("Consider inventory levels, ratings, and reviews"),
                  Hint("Use realistic price ranges for product categories")>>
SocialHints  == <<Hint("Include engagement metrics (likes, shares, comments)"),
                  Hint("Consider temporal patterns (posting times, dates)"),
                  Hint("Use realistic engagement rate distributions")>>
UserHints    == <<Hint("Include user identifiers and demographic information"),
                  Hint("Consider registration dates and activity timestamps"),
                  Hint("Use realistic email and name formats")>>
SalesHints   == <<Hint("Include transaction IDs, amounts, and timestamps"),
                  Hint("Consider payment methods and order statuses"),
                  Hint("Use realistic transaction value distributions")>>
CommonColumnsText == "Common columns in similar datasets"
TypicalRangeText  == "typical range"

\* referenceContextBuilder.js: generateSemanticHints, the array hints as it
\* stands before the slice
PushedHints(topic, context) ==
    LET topicLower == ToLowerCase(topic.chars)
        patterns   == context.columnPatterns
        catalog  == IF HasAny(topicLower, {sEcommerce, sProduct, sShop})
                    THEN CatalogHints ELSE <<>>
        social   == IF HasAny(topicLower, {sSocial, sMedia, sPost})
                    THEN SocialHints ELSE <<>>
        users    == IF HasAny(topicLower, {sUser, sCustomer, sAccount})
                    THEN UserHints ELSE <<>>
        sales    == IF HasAny(topicLower, {sSales, sTransaction, sOrder})
                    THEN SalesHints ELSE <<>>
        common   == IF patterns # <<>>
                    THEN <<[text |-> CommonColumnsText,
                            columns |-> Slice0([i \in 1..Len(patterns) |-> patterns[i].name],
                                               HintColumns)]>>
                    ELSE <<>>
        ranged   == FilterSeq(patterns, HasRange)
        ranges   == [i \in 1..Len(ranged) |->
                        [text |-> TypicalRangeText, columns |-> <<ranged[i].name>>]]
    IN catalog \o social \o users \o sales \o common \o ranges

\* generateSemanticHints that keeps the last ten hints
generateSemanticHintsLastTen(topic, description, context) ==
    IF topic.type # "string" THEN Threw
    ELSE LET hints == PushedHints(topic, context)
         IN Ret(IF Len(hints) <= MaxHints THEN hints
                ELSE SubSeq(hints, Len(hints) - MaxHints + 1, Len(hints)))

\* referenceContextBuilder.js: generateSemanticHints; it reads the topic
\* and the column patterns, and throws when the topic is not a string
generateSemanticHints(topic, description, context) ==
    IF topic.type # "string" THEN Threw
    ELSE Ret(Slice0(PushedHints(topic, context), MaxHints))

\* the context returned when the build fails
ZeroContext ==
    [type |-> "context", referenceSources |-> <<>>, columnPatterns |-> <<>>,
     valueExamples |-> <<>>, semanticHints |-> <<>>]

\* the sources of the ranked Kaggle metadata and of the Hugging Face samples
\* (JsNull: none)
SourcesOf(kaggleMetadata, hfSamples) ==
    [i \in 1..Len(kaggleMetadata) |-> KaggleSource(kaggleMetadata[i])]
    \o (IF Truthy(hfSamples) THEN <<HuggingFaceSource(hfSamples)>> ELSE <<>>)

buildReferenceContextBody(topic, description, kaggleMetadata, hfSamples) ==
    LET context ==
            [type |-> "context",
             referenceSources |-> SourcesOf(kaggleMetadata, hfSamples),
             columnPatterns |-> IF Truthy(hfSamples)
                                THEN extractColumnPatterns(hfSamples) ELSE <<>>,
             valueExamples |-> IF Truthy(hfSamples)
                               THEN ValueExamples(hfSamples) ELSE <<>>,
             semanticHints |-> <<>>]
        hints == generateSemanticHints(topic, description, context)
    IN IF hints.threw THEN Threw
       ELSE Ret([context EXCEPT !.semanticHints = hints.value])

\* buildReferenceContext with the catch left out
buildReferenceContextNoCatch(topic, description, kaggleMetadata, hfSamples) ==
    buildReferenceContextBody(topic, description, kaggleMetadata, hfSamples)

\* referenceContextBuilder.js: buildReferenceContext, from what its two
\* lookups gave it: the catch returns the empty context
buildReferenceContext(topic, description, kaggleMetadata, hfSamples) ==
    Catch(buildReferenceContextBody(topic, description, kaggleMetadata, hfSamples),
          ZeroContext)

\* ---- referenceContextBuilder.formatContextForPrompt ----
\* The returned string as the lines it is put together from; a line is the
\* text of the template and the values substituted into it.  '' is <<>>.
Line(text, args) == [text |-> text, args |-> args]

PromptPatterns == 5

ReferenceHeader == Line("--- REFERENCE CONTEXT (for structure understanding only) ---", <<>>)
ReferenceFooter == Line("--- END REFERENCE CONTEXT ---", <<>>)

CriticalInstructions ==
    <<Line("CRITICAL INSTRUCTIONS:", <<>>),
      Line("- Use the reference context ONLY to understand typical structure and patterns", <<>>),
      Line("- DO NOT copy any actual data from the reference sources", <<>>),
      Line("- Generate 100% original, synthetic data that follows the user's schema", <<>>),
      Line("- Ensure all generated values are realistic and domain-appropriate", <<>>),
      Line("- Output ONLY a valid JSON array of objects", <<>>)>>

SourceLines(sources) ==
    <<Line("Similar datasets found:", <<>>)>>
    \o [i \in 1..Len(sources) |->
          Line("idx. datasetName (sourceType) / relevanceSummary",
               <<i, sources[i].datasetName, sources[i].sourceType,
                 sources[i].relevanceSummary>>)]

PatternLines(patterns) ==
    IF patterns = <<>> THEN <<>>
    ELSE <<Line("Common column patterns:", <<>>)>>
         \o [i \in 1..Len(Slice0(patterns, PromptPatterns)) |->
               Line("- name: datatype", <<patterns[i].name>>)]

HintLines(hints) ==
    IF hints = <<>> THEN <<>>
    ELSE <<Line("Recommendations:", <<>>)>>
         \o [i \in 1..Len(hints) |-> Line("- hint", <<hints[i]>>)]

\* the block that follows the guard of formatContextForPrompt
ReferenceBlock(context) ==
    <<ReferenceHeader>>
    \o SourceLines(context.referenceSources)
    \o PatternLines(context.columnPatterns)
    \o HintLines(context.semanticHints)
    \o <<ReferenceFooter>>
    \o CriticalInstructions

\* formatContextForPrompt with the test of the sources left out of its guard
formatContextForPromptAnySources(context) ==
    IF ~Truthy(context) THEN <<>> ELSE ReferenceBlock(context)

formatContextForPrompt(context) ==
    IF ~Truthy(context) \/ Len(context.referenceSources) = 0
    THEN <<>>
    ELSE ReferenceBlock(context)

(***************************************************************************)
(* Dataset generation                                                      *)
(*                                                                         *)
(* The text of the model's response is a sequence of segments: a code      *)
(* fence ``` followed by a tag, white space, prose (text without brackets  *)
(* that is not JSON) or the serialisation of one JSON value.  A JSON value *)
(* is an array of rows or an object {"data": data}.                        *)
(***************************************************************************)
Fence(tag)     == [seg |-> "fence", tag |-> tag]
Space          == [seg |-> "space"]
Prose          == [seg |-> "prose"]
Json(value)    == [seg |-> "json", value |-> value]
JsDataObject(data) == [type |-> "object", data |-> data]

IsSpace(segment)  == segment.seg = "space"
NotSpace(segment) == segment.seg # "space"

\* String.prototype.trim over segments
TrimSegments(text) ==
    LET solid == {i \in 1..Len(text) : NotSpace(text[i])}
    IN IF solid = {} THEN <<>>
       ELSE SubSeq(text, CHOOSE i \in solid : \A j \in solid : i <= j,
                         CHOOSE i \in solid : \A j \in solid : i >= j)

\* text.replace(/```json/g, '').replace(/```/g, ''): the tag of a fence goes
\* with it only when it is spelled json; any other tag stays as text
RECURSIVE StripFences(_)
StripFences(text) ==
    IF text = <<>> THEN <<>>
    ELSE IF Head(text).seg = "fence"
         THEN (IF Head(text).tag \in {"", "json"} THEN <<>> ELSE <<Prose>>)
              \o StripFences(Tail(text))
         ELSE <<Head(text)>> \o StripFences(Tail(text))

\* the tags the case-insensitive /json/i matches
JsonAnyCase ==
    {"json", "jsoN", "jsOn", "jsON", "jSon", "jSoN", "jSOn", "jSON",
     "Json", "JsoN", "JsOn", "JsON", "JSon", "JSoN", "JSOn", "JSON"}

\* replace(/```json\s*/gi, '') and then replace(/```\s*/g, ''): a fence goes
\* with the white space after it, and with its tag when the tag is json in
\* any case
RECURSIVE StripFencesAndSpace(_, _)
StripFencesAndSpace(text, afterFence) ==
    IF text = <<>> THEN <<>>
    ELSE IF Head(text).seg = "fence"
         THEN IF Head(text).tag \in {""} \cup JsonAnyCase
              THEN StripFencesAndSpace(Tail(text), TRUE)
              ELSE <<Prose>> \o StripFencesAndSpace(Tail(text), FALSE)
         ELSE IF IsSpace(Head(text)) /\ afterFence
              THEN StripFencesAndSpace(Tail(text), TRUE)
              ELSE <<Head(text)>> \o StripFencesAndSpace(Tail(text), FALSE)

\* JSON.parse: the text is one value with white space around it at most
JsonParse(text) ==
    LET solid == FilterSeq(text, NotSpace)
    IN IF Len(solid) = 1 /\ solid[1].seg = "json"
       THEN Ret(solid[1].value)
       ELSE Threw

\* the segments that hold a square bracket
HasBracket(segment) ==
    /\ segment.seg = "json"
    /\ \/ segment.value.type = "array"
       \/ segment.value.type = "object" /\ segment.value.data.type = "array"

\* cleanedText.match(/\[[\s\S]*\]/): from the first [ to the last ] of the
\* text; JsNull when the text has no bracket.  Within one segment that is
\* the array itself, or the array inside the object; over several segments
\* it is more than one value.
MatchArray(text) ==
    LET at == {i \in 1..Len(text) : HasBracket(text[i])}
        lo == CHOOSE i \in at : \A j \in at : i <= j
        hi == CHOOSE i \in at : \A j \in at : i >= j
    IN IF at = {} THEN JsNull
       ELSE IF lo = hi
            THEN [type |-> "match",
                  text |-> <<Json(IF text[lo].value.type = "array"
                                  THEN text[lo].value ELSE text[lo].value.data)>>]
            ELSE [type |-> "match", text |-> SubSeq(text, lo, hi)]

\* services/geminiService.js: parseGeminiResponse
parseGeminiResponse(responseText) ==
    LET cleanedText == StripFencesAndSpace(TrimSegments(responseText), FALSE)
        jsonMatch   == MatchArray(cleanedText)
        parsedData  == JsonParse(jsonMatch.text)
    IN IF ~Truthy(jsonMatch) THEN Threw
       ELSE IF parsedData.threw THEN Threw
       ELSE IF parsedData.value.type # "array" THEN Threw
       ELSE IF Len(parsedData.value.items) = 0 THEN Threw
       ELSE Ret(parsedData.value)

\* what model.generateContent and response.text() gave: a text, or a failure
ModelFailed(up) == up.kind # "ok"

\* services/geminiService.js: generateDataset({topic, ..., rowCount}), from
\* the outcome of its one generateContent call
generateDatasetFromParams(rowCount, up) ==
    IF ModelFailed(up) THEN Threw
    ELSE Rethrow(parseGeminiResponse(up.text))

\* generateDataset that takes the rows only when their number is rowCount
generateDatasetExactCount(rowCount, referenceContext, up) ==
    IF ModelFailed(up) THEN Threw
    ELSE LET dataset == JsonParse(TrimSegments(StripFences(up.text)))
         IN IF dataset.threw \/ dataset.value.type # "array" THEN Threw
            ELSE IF Len(dataset.value.items) # rowCount THEN Threw
            ELSE Ret(dataset.value)

\* the generateDataset the request handler with the reference context
\* calls: generateDataset(topic, description, columns, rowCount,
\* referenceContext), from the outcome of its one generateContent call
generateDataset(rowCount, referenceContext, up) ==
    IF ModelFailed(up) THEN Threw
    ELSE LET cleanedText == TrimSegments(StripFences(up.text))
             dataset     == JsonParse(cleanedText)
         IN IF dataset.threw THEN Threw
            ELSE IF dataset.value.type # "array" THEN Threw
            ELSE Ret(dataset.value)

(***************************************************************************)
(* Inputs                                                                  *)
(***************************************************************************)
MaxAffix == 2
MaxCands == 4


\* sanitizeSearchQuery arguments: strings head . fill^n . tail around the
\* 200-character cap, and values that are not strings
SanAlphabet == {"a", "B", "7", " ", "\t", "_", ";"}
SanFillLens == {0, 197, 198, 199, 200, 203}
SanInputs ==
    {JsNull, JsUndefined, JsNumber(7)}
    \cup {JsString(h \o Rep(c, n) \o t) :
            h \in SeqsUpTo(SanAlphabet, MaxAffix),
            c \in {"a", " "}, n \in SanFillLens,
            t \in SeqsUpTo(SanAlphabet, 1)}

\* candidate shapes; the reference of a candidate is its place in the
\* fetched list
RankRefs == << <<"o","/","a">>, <<"o","/","b">>, <<"o","/","c">>,
               <<"o","/","d">>, <<"o","/","e">>, <<"o","/","f">> >>
shShopData == [title |-> sShopData, description |-> <<>>, downloadCount |-> 500,
               voteCount |-> 50, usability100 |-> 50]
shCats     == [title |-> sCats, description |-> sShop, downloadCount |-> 20000,
               voteCount |-> 0, usability100 |-> 100]
shShopCap  == [title |-> sShopCap, description |-> <<>>, downloadCount |-> 0,
               voteCount |-> 2000, usability100 |-> 0]
shEmpty    == [title |-> <<>>, description |-> <<>>, downloadCount |-> 0,
               voteCount |-> 0, usability100 |-> 0]
RankShapes == {shShopData, shCats, shShopCap, shEmpty}
WithRefs(shapes) ==
    [i \in 1..Len(shapes) |->
        [ref |-> RankRefs[i], title |-> shapes[i].title,
         description |-> shapes[i].description,
         downloadCount |-> shapes[i].downloadCount,
         voteCount |-> shapes[i].voteCount,
         usability100 |-> shapes[i].usability100]]
\* no list, values that are no list, and the lists of candidates
RankLists ==
    {JsNull, JsUndefined, JsNumber(7), JsBoolean(TRUE), JsString(sShop)}
    \cup {JsArray(WithRefs(l)) : l \in SeqsUpTo(RankShapes, MaxCands)}
RankTopics == {sShop, sShopData, sAB}
RankDescriptions == {<<>>, sCats}

(***************************************************************************)
(* SanSpec: sanitizeSearchQuery applied to one argument                    *)
(***************************************************************************)
IdleSan   == sanIn = NotRun /\ sanOut = NotRun
IdleRank  == rkIn = NotRun /\ rkOut = NotRun
IdleCache == /\ now = 0 /\ ticks = 0
             /\ searchCache = EmptyStore /\ datasetCache = EmptyStore
             /\ lastOp = [calls |-> 0, ops |-> <<>>]
IdleReq   == req = <<>>
IdleFetch == fnIn = NotRun /\ fnOut = NotRun
IdleGen   == gen = [pc |-> "idle"] /\ saved = <<>> /\ deleted = NotRun
\* no command, no timer, no race; timedOut and late keep, for the properties,
\* the calls the timer has settled and the commands and timers that ended
\* with nobody waiting
NoCli ==
    [procs |-> {}, timers |-> {}, race |-> NotRun, timedOut |-> {}, late |-> {}]
IdleCli   == cli = NoCli

SanInit ==
    /\ sanIn \in SanInputs
    /\ sanOut = NotRun
    /\ IdleRank /\ IdleCache /\ IdleReq /\ IdleGen /\ IdleCli /\ IdleFetch

CallSanitize ==
    /\ sanOut = NotRun
    /\ sanOut' = JsString(sanitizeSearchQuery(sanIn))
    /\ UNCHANGED <<sanIn, rkVars, cacheVars, lastOp, req, fnVars, genVars, cli>>

SanNext == CallSanitize

SanSpec == SanInit /\ [][SanNext]_vars

(***************************************************************************)
(* RankSpec: one ranking call on one candidate list                        *)
(***************************************************************************)
RankInit ==
    /\ rkIn \in [fn : {"rankDatasetsByRelevance", "rankDatasets"},
                 datasets : RankLists, topic : RankTopics,
                 description : RankDescriptions]
    /\ rkOut = NotRun
    /\ IdleSan /\ IdleCache /\ IdleReq /\ IdleGen /\ IdleCli /\ IdleFetch

\* what the caller has after the call: the array returned, or the error
Ranked(result) ==
    IF result.threw THEN [type |-> "threw"] ELSE JsArray(result.value)

CallRankByRelevance ==
    /\ rkOut = NotRun
    /\ rkIn.fn = "rankDatasetsByRelevance"
    /\ rkOut' = Ranked(rankDatasetsByRelevance(rkIn.datasets, rkIn.topic))
    /\ UNCHANGED <<rkIn, sanVars, cacheVars, lastOp, req, fnVars, genVars, cli>>

CallRankDatasets ==
    /\ rkOut = NotRun
    /\ rkIn.fn = "rankDatasets"
    /\ rkOut' = Ranked(rankDatasets(rkIn.datasets, rkIn.topic, rkIn.description))
    /\ UNCHANGED <<rkIn, sanVars, cacheVars, lastOp, req, fnVars, genVars, cli>>

RankNext == CallRankByRelevance \/ CallRankDatasets

RankSpec == RankInit /\ [][RankNext]_vars

(***************************************************************************)
(* CacheSpec: the cache service called directly, with the clock and the    *)
(* periodic checks of the two stores                                       *)
(***************************************************************************)
MaxCalls == 2
MaxTicks == 2

ClockSteps  == {1, SearchStdTTL, DatasetStdTTL}
sShopPadded == <<" ","S","H","O","P"," ">>
CacheTopics == {sShop, sShopPadded, sCats}
CacheRefs   == {RankRefs[1], RankRefs[2]}
JsObject(i) == [type |-> "object", id |-> i]
CacheValues == {JsObject(1), JsNumber(0), JsString(<<>>)}

PushOp(op) ==
    [calls |-> lastOp.calls + 1,
     ops   |-> IF Len(lastOp.ops) < 2 THEN Append(lastOp.ops, op)
               ELSE <<lastOp.ops[2], op>>]

CacheInit ==
    /\ IdleCache
    /\ IdleSan /\ IdleRank /\ IdleReq /\ IdleGen /\ IdleCli /\ IdleFetch

\* the clock moves on; nothing else happens
AdvanceClock ==
    /\ ticks < MaxTicks
    /\ \E d \in ClockSteps : now' = now + d
    /\ ticks' = ticks + 1
    /\ UNCHANGED <<searchCache, datasetCache, lastOp, sanVars, rkVars, req, fnVars, genVars, cli>>

\* a checkperiod timer of the search store fires: the first is due one
\* period after construction, and a timer may fire late; a check that finds
\* no dead entry changes nothing
SweepSearch ==
    /\ now >= CacheOptions.search.checkperiod
    /\ NcSweep(searchCache, now) # searchCache
    /\ searchCache' = NcSweep(searchCache, now)
    /\ UNCHANGED <<now, ticks, datasetCache, lastOp, sanVars, rkVars, req, fnVars, genVars, cli>>

\* a checkperiod timer of the sample store fires
SweepDataset ==
    /\ now >= CacheOptions.dataset.checkperiod
    /\ NcSweep(datasetCache, now) # datasetCache
    /\ datasetCache' = NcSweep(datasetCache, now)
    /\ UNCHANGED <<now, ticks, searchCache, lastOp, sanVars, rkVars, req, fnVars, genVars, cli>>

ApiSetSearchResults(limit) ==
    /\ lastOp.calls < limit
    /\ \E topic \in CacheTopics, description \in {<<>>}, v \in CacheValues :
          /\ searchCache' = setSearchResults(topic, description, v, searchCache, now)
          /\ lastOp' = PushOp([op |-> "set", part |-> "search", arg |-> topic,
                               v |-> v, at |-> now])
    /\ UNCHANGED <<now, ticks, datasetCache, sanVars, rkVars, req, fnVars, genVars, cli>>

ApiGetSearchResults(limit) ==
    /\ lastOp.calls < limit
    /\ \E topic \in CacheTopics, description \in {<<>>} :
          LET key == generateSearchKey(topic, description)
          IN /\ searchCache' = NcAfterGet(searchCache, key, now)
             /\ lastOp' = PushOp([op |-> "get", part |-> "search", arg |-> topic,
                                  ret |-> getSearchResults(topic, description,
                                                           searchCache, now),
                                  seen |-> EntryOf(searchCache, key), at |-> now])
    /\ UNCHANGED <<now, ticks, datasetCache, sanVars, rkVars, req, fnVars, genVars, cli>>

ApiSetDatasetSample(limit) ==
    /\ lastOp.calls < limit
    /\ \E ref \in CacheRefs, v \in CacheValues :
          /\ datasetCache' = setDatasetSample(ref, v, datasetCache, now)
          /\ lastOp' = PushOp([op |-> "set", part |-> "dataset", arg |-> ref,
                               v |-> v, at |-> now])
    /\ UNCHANGED <<now, ticks, searchCache, sanVars, rkVars, req, fnVars, genVars, cli>>

ApiGetDatasetSample(limit) ==
    /\ lastOp.calls < limit
    /\ \E ref \in CacheRefs :
          LET key == generateDatasetKey(ref)
          IN /\ datasetCache' = NcAfterGet(datasetCache, key, now)
             /\ lastOp' = PushOp([op |-> "get", part |-> "dataset", arg |-> ref,
                                  ret |-> getDatasetSample(ref, datasetCache, now),
                                  seen |-> EntryOf(datasetCache, key), at |-> now])
    /\ UNCHANGED <<now, ticks, searchCache, sanVars, rkVars, req, fnVars, genVars, cli>>

\* clearAll: flushAll on both stores; flushed keeps, for the properties, the
\* keys each store held
ApiClearAll(limit) ==
    /\ lastOp.calls < limit
    /\ searchCache' = EmptyStore
    /\ datasetCache' = EmptyStore
    /\ lastOp' = PushOp([op |-> "clear", part |-> "both", at |-> now,
                         flushed |-> [search  |-> DOMAIN searchCache,
                                      dataset |-> DOMAIN datasetCache]])
    /\ UNCHANGED <<now, ticks, sanVars, rkVars, req, fnVars, genVars, cli>>

CacheNext ==
    \/ AdvanceClock \/ SweepSearch \/ SweepDataset
    \/ ApiSetSearchResults(MaxCalls) \/ ApiGetSearchResults(MaxCalls)
    \/ ApiSetDatasetSample(MaxCalls) \/ ApiGetDatasetSample(MaxCalls)
    \/ ApiClearAll(MaxCalls)

CacheSpec == CacheInit /\ [][CacheNext]_vars

(***************************************************************************)
(* PartSpec: the two partitions of the cache service, called directly up   *)
(* to MaxPartCalls times while the clock stands still, so that clearAll    *)
(* comes after a set on each store                                         *)
(***************************************************************************)
MaxPartCalls == 3

PartInit == CacheInit

PartNext ==
    \/ ApiSetSearchResults(MaxPartCalls) \/ ApiGetSearchResults(MaxPartCalls)
    \/ ApiSetDatasetSample(MaxPartCalls) \/ ApiGetDatasetSample(MaxPartCalls)
    \/ ApiClearAll(MaxPartCalls)

PartSpec == PartInit /\ [][PartNext]_vars

(***************************************************************************)
(* FetchSpec: one call of one fetcher or preview function, against one     *)
(* behaviour of the upstream                                               *)
(***************************************************************************)
\* what the Kaggle CLI listed, parsed
CatSmall == WithRefs(<<shCats, shShopData>>)
CatTies  == WithRefs(<<shShopData, shShopData, shCats, shShopData>>)

Up(kind) == [kind |-> kind]
KaggleSearchUps ==
    {Up("error"), Up("timeout"), Up("malformed"), Up("empty"),
     [kind |-> "ok", datasets |-> CatSmall], [kind |-> "ok", datasets |-> CatTies]}
DownloadUps == {Up("error"), Up("timeout"), Up("ok")}
SampleA == [fileName |-> sDataCsv, totalRows |-> 60,
            columns |-> <<cUserId, cPrice>>]
SampleB == [fileName |-> sProductsCsv, totalRows |-> 4,
            columns |-> <<cName>>]
SampleUps ==
    {Up("error"), Up("empty"), Up("malformed"),
     [kind |-> "ok", sample |-> SampleA], [kind |-> "ok", sample |-> SampleB]}
HfIds == << <<"h","/","x">>, <<"h","/","y">> >>
HfSearchUps ==
    {Up("error"), Up("timeout"), Up("malformed"), Up("empty"),
     [kind |-> "ok", ids |-> HfIds]}
HfSampleA == [totalRows |-> 2,
              columns |-> <<[name |-> cPrice, numeric |-> TRUE],
                            [name |-> cTitle, numeric |-> FALSE]>>]
\* an answer of more rows than the limit
HfSampleLong == [totalRows |-> 25, columns |-> HfSampleA.columns]
HfSampleUps ==
    {Up("error"), Up("timeout"), Up("malformed"), Up("empty"),
     [kind |-> "ok", sample |-> HfSampleA], [kind |-> "ok", sample |-> HfSampleLong]}
MetadataUps == {Up("error"), Up("timeout"), [kind |-> "ok", title |-> sShopData]}
ScrapeUps ==
    {Up("error"), Up("timeout"), Up("nostate"), Up("malformed"), Up("empty"),
     Up("nodata"),
     [kind |-> "ok", file |-> [name |-> sDataCsv, totalRows |-> 0,
                               columns |-> <<>>]],
     [kind |-> "ok", file |-> [name |-> sProductsCsv, totalRows |-> 7,
                               columns |-> <<"sku">>]]}
ApiUps ==
    [meta   : MetadataUps,
     files  : {Up("error"), Up("empty"), Up("nodata"),
               [kind |-> "ok", name |-> sDataCsv]},
     sample : {Up("error"), Up("malformed"),
               [kind |-> "ok", totalRows |-> 20, columns |-> <<"price">>],
               [kind |-> "ok", totalRows |-> 25, columns |-> <<"price">>]}]
PreviewRefs == {RankRefs[1], <<"o","/","s","h","o","p">>}
FetchTopics == {sShop, sShopPadded, <<";">>, <<>>}

Call(fn, a1, a2, up) == [fn |-> fn, a1 |-> a1, a2 |-> a2, up |-> up]
FetchCalls ==
    {Call("searchKaggleDatasets", t, d, up) :
        t \in FetchTopics, d \in RankDescriptions, up \in KaggleSearchUps}
    \cup {Call("searchKaggleMetadata", t, <<>>, up) :
        t \in {JsString(x) : x \in FetchTopics} \cup {JsNull},
        up \in KaggleSearchUps}
    \cup {Call("downloadDataset", r, <<>>, up) : r \in CacheRefs, up \in DownloadUps}
    \cup {Call("sampleDatasetFiles", r, <<>>, up) : r \in CacheRefs, up \in SampleUps}
    \cup {Call("searchHuggingFaceDatasets", t, <<>>, up) :
        t \in FetchTopics, up \in HfSearchUps}
    \cup {Call("fetchHuggingFaceSamples", HfIds[i], <<>>, up) :
        i \in 1..Len(HfIds), up \in HfSampleUps}
    \cup {Call("fetchDatasetMetadata", r, <<>>, up) :
        r \in CacheRefs, up \in MetadataUps}
    \cup {Call("getDatasetPreviewScrape", r, <<>>, up) :
        r \in PreviewRefs, up \in ScrapeUps}
    \cup {Call("getDatasetPreviewApi", r, <<>>, up) : r \in PreviewRefs, up \in ApiUps}

FetchInit ==
    /\ fnIn \in FetchCalls
    /\ fnOut = NotRun
    /\ IdleSan /\ IdleRank /\ IdleCache /\ IdleReq /\ IdleGen /\ IdleCli

Returns(fn, result) ==
    /\ fnOut = NotRun
    /\ fnIn.fn = fn
    /\ fnOut' = result
    /\ UNCHANGED <<fnIn, sanVars, rkVars, cacheVars, lastOp, req, genVars, cli>>

CallSearchKaggleDatasets ==
    Returns("searchKaggleDatasets", searchKaggleDatasets(fnIn.a1, fnIn.a2, fnIn.up))
CallSearchKaggleMetadata ==
    Returns("searchKaggleMetadata", searchKaggleMetadata(fnIn.a1, fnIn.up))
CallDownloadDataset ==
    Returns("downloadDataset", downloadDataset(fnIn.a1, fnIn.up))
CallSampleDatasetFiles ==
    Returns("sampleDatasetFiles", sampleDatasetFiles(fnIn.a1, fnIn.up))
CallSearchHuggingFaceDatasets ==
    Returns("searchHuggingFaceDatasets", searchHuggingFaceDatasets(fnIn.a1, fnIn.up))
CallFetchHuggingFaceSamples ==
    Returns("fetchHuggingFaceSamples", fetchHuggingFaceSamples(fnIn.a1, fnIn.up))
CallFetchDatasetMetadata ==
    Returns("fetchDatasetMetadata", fetchDatasetMetadata(fnIn.a1, fnIn.up))
CallGetDatasetPreviewScrape ==
    Returns("getDatasetPreviewScrape", getDatasetPreviewScrape(fnIn.a1, fnIn.up))
CallGetDatasetPreviewApi ==
    Returns("getDatasetPreviewApi", getDatasetPreviewApi(fnIn.a1, fnIn.up))

FetchNext ==
    \/ CallSearchKaggleDatasets \/ CallSearchKaggleMetadata
    \/ CallDownloadDataset \/ CallSampleDatasetFiles
    \/ CallSearchHuggingFaceDatasets \/ CallFetchHuggingFaceSamples
    \/ CallFetchDatasetMetadata
    \/ CallGetDatasetPreviewScrape \/ CallGetDatasetPreviewApi

FetchSpec == FetchInit /\ [][FetchNext]_vars

(***************************************************************************)
(* InferSpec: one call of inferColumnType on one column of values          *)
(***************************************************************************)
MaxValues == 3

ColumnValues ==
    {JsString(<<"1">>),
     JsString(<<"2">>),
     JsString(<<"3">>),
     JsString(<<"1",".","5">>),
     JsString(<<"2",".","0">>),
     JsString(<<"-","3">>),
     JsString(<<"t","r","u","e">>),
     JsString(<<"f","a","l","s","e">>),
     JsString(<<"Y","E","S">>),
     JsString(<<"2","0","2","4","-","0","1","-","0","1">>),
     JsString(<<"2","0","2","4","-","0","2","-","0","1">>),
     JsString(<<"a","@","b",".","c","o","m">>),
     JsString(<<"h","t","t","p",":","/","/","x">>),
     JsString(<<"1","2","3"," ","4","5","6"," ","7","8","9","0">>),
     JsString(<<"(","1","2",")","\t","3","4","5","-","6","7","8">>),
     JsString(<<"a","b","c">>),
     JsString(<<>>),
     JsNull, JsUndefined, JsNumber(7)}

InferInputs ==
    {JsNull, JsUndefined, JsNumber(7), JsString(<<"a","b","c">>)}
    \cup {JsArray(items) : items \in SeqsUpTo(ColumnValues, MaxValues)}

InferInit ==
    /\ fnIn \in {Call("inferColumnType", values, <<>>, Up("none")) :
                    values \in InferInputs}
    /\ fnOut = NotRun
    /\ IdleSan /\ IdleRank /\ IdleCache /\ IdleReq /\ IdleGen /\ IdleCli

CallInferColumnType ==
    Returns("inferColumnType", inferColumnType(fnIn.a1))

InferNext == CallInferColumnType

InferSpec == InferInit /\ [][InferNext]_vars

(***************************************************************************)
(* FormatSpec: one call of formatContextForPrompt on one context           *)
(***************************************************************************)
\* the contexts buildReferenceContext returns for every ranking of the
\* candidate lists with and without Hugging Face samples, and no context
FormatMetadata ==
    {rankDatasetsByRelevance(JsArray(StripDescription(WithRefs(l))), sShop).value :
        l \in SeqsUpTo(RankShapes, MaxCands)}
FormatSamples ==
    {JsNull,
     fetchHuggingFaceSamples(HfIds[1], [kind |-> "ok", sample |-> HfSampleA]).value}
FormatInputs ==
    {JsNull, JsUndefined}
    \cup {buildReferenceContext(topic, <<>>, metadata, samples).value :
            topic \in {JsString(sShop), JsString(sAB), JsNull},
            metadata \in FormatMetadata, samples \in FormatSamples}

FormatInit ==
    /\ fnIn \in {Call("formatContextForPrompt", context, <<>>, Up("none")) :
                    context \in FormatInputs}
    /\ fnOut = NotRun
    /\ IdleSan /\ IdleRank /\ IdleCache /\ IdleReq /\ IdleGen /\ IdleCli

CallFormatContextForPrompt ==
    Returns("formatContextForPrompt", Ret(formatContextForPrompt(fnIn.a1)))

FormatNext == CallFormatContextForPrompt

FormatSpec == FormatInit /\ [][FormatNext]_vars

(***************************************************************************)
(* HintSpec: one call of generateSemanticHints.  The topics name any of    *)
(* the four domains; the context has up to MaxPatterns column patterns,    *)
(* each with or without a value range.                                     *)
(***************************************************************************)
MaxPatterns == 3

HintWords == <<sShop, sPost, sUser, sOrder>>
HintNames == <<cUserId, cPrice, cName, cTitle, sId>>
\* the words of the domains in named, separated by spaces
NamingTopic(named) ==
    LET Word(i) == IF i \in named THEN HintWords[i] \o <<" ">> ELSE <<>>
    IN JsString(Word(1) \o Word(2) \o Word(3) \o Word(4) \o sCats)
HintTopics ==
    {NamingTopic(named) : named \in SUBSET (1..4)}
        \cup {JsString(sShopPadded), JsNull}
HintPatterns ==
    UNION {{[i \in 1..n |-> [name |-> HintNames[i], valueRange |-> ranged[i]]] :
               ranged \in [1..n -> BOOLEAN]} : n \in 0..MaxPatterns}
HintContexts == {[ZeroContext EXCEPT !.columnPatterns = p] : p \in HintPatterns}

HintInit ==
    /\ fnIn \in {Call("generateSemanticHints", topic, context, Up("none")) :
                    topic \in HintTopics, context \in HintContexts}
    /\ fnOut = NotRun
    /\ IdleSan /\ IdleRank /\ IdleCache /\ IdleReq /\ IdleGen /\ IdleCli

CallGenerateSemanticHints ==
    Returns("generateSemanticHints",
            generateSemanticHints(fnIn.a1, <<>>, fnIn.a2))

HintNext == CallGenerateSemanticHints

HintSpec == HintInit /\ [][HintNext]_vars

(***************************************************************************)
(* GenSpec: one POST /api/generate request, from its arrival to its        *)
(* response.  A request of kind "builder" is served by the handler that    *)
(* builds the reference context and calls generateDataset(topic, ...,      *)
(* referenceContext); a request of kind "kaggleRef" by the handler that    *)
(* asks getKaggleReference and calls generateDataset({topic, ...}).  The   *)
(* handlers are cut at their awaits: the reference, generateContent, save. *)
(* gen is [kind, rowCount, pc, reference, formatted, calls, up, outcome,   *)
(* response]; saved is the list of the documents that were saved.          *)
(***************************************************************************)
MaxRows == 3

GenKinds     == {"builder", "kaggleRef"}
GenRows      == {JsObject(1), JsObject(2)}
GenRowCounts == 1..MaxRows

\* the texts the model may answer with
GenArrays == {JsArray(rows) : rows \in SeqsUpTo(GenRows, MaxRows)}
GenBodies ==
    {<<>>, <<Prose>>,
     <<Json(JsDataObject(JsNull))>>,
     <<Json(JsDataObject(JsArray(<<JsObject(1)>>)))>>,
     <<Json(JsArray(<<JsObject(1)>>)), Space, Json(JsArray(<<JsObject(2)>>))>>}
    \cup {<<Json(array)>> : array \in GenArrays}
GenBefore ==
    {<<>>, <<Space>>, <<Prose, Space>>, <<Fence("json"), Space>>,
     <<Fence("JSON"), Space>>, <<Fence("Json"), Space>>, <<Fence(""), Space>>}
GenAfter  == {<<>>, <<Space, Fence("")>>, <<Space, Prose>>}
GenTexts  ==
    {before \o body \o after :
        before \in GenBefore, body \in GenBodies, after \in GenAfter}
GenerateUps ==
    {Up("error"), Up("blocked")} \cup {[kind |-> "ok", text |-> t] : t \in GenTexts}

\* what the reference step of the handler may give it
GenContexts ==
    {buildReferenceContext(JsString(sShop), <<>>, metadata, samples).value :
        metadata \in {<<>>, rankDatasetsByRelevance(
                                JsArray(StripDescription(CatSmall)), sShop).value},
        samples \in FormatSamples}
GenReferences ==
    {JsNull,
     kaggleBuildReferenceContext(
         sampleDatasetFiles(CatSmall[1].ref, [kind |-> "ok", sample |-> SampleA]).value,
         CatSmall[1]).value}

GenInit ==
    /\ gen = [pc |-> "idle"]
    /\ saved = <<>>
    /\ deleted = NotRun
    /\ IdleSan /\ IdleRank /\ IdleCache /\ req = <<>> /\ IdleFetch /\ IdleCli

Response(status, body) == [status |-> status, body |-> body]

\* the handler's catch: next(new APIError(error.message, 500))
Fails(g) == [g EXCEPT !.pc = "done", !.response = Response(500, JsNull)]

\* the request arrives; the handler with the reference context answers 400
\* when the validation of the body has found errors
Generate(kind, rowCount, valid) ==
    /\ gen.pc = "idle"
    /\ kind = "kaggleRef" => valid
    /\ gen' = [kind |-> kind, rowCount |-> rowCount,
               pc |-> IF valid THEN "reference" ELSE "done",
               reference |-> JsNull, formatted |-> JsNull, calls |-> 0,
               up |-> NotRun, outcome |-> NotRun,
               response |-> IF valid THEN NotRun ELSE Response(400, JsNull)]
    /\ UNCHANGED <<saved, deleted, sanVars, rkVars, cacheVars, lastOp, req, fnVars, cli>>

\* the reference has arrived and generateDataset runs up to its await of
\* generateContent; getGeminiModel throws when the API key is not defined
CallGenerateDataset(g, keyed) ==
    IF keyed
    THEN [g EXCEPT !.pc = "model", !.calls = @ + 1]
    ELSE Fails([g EXCEPT !.outcome = Threw])

ReferenceReturns(reference, keyed) ==
    /\ gen.pc = "reference"
    /\ IF gen.kind = "builder"
       THEN reference \in GenContexts
       ELSE reference \in GenReferences
    /\ gen' = CallGenerateDataset(
                 [gen EXCEPT !.reference = reference,
                             !.formatted =
                                 IF gen.kind = "builder"
                                 THEN formatContextForPrompt(reference)
                                 ELSE JsNull],
                 keyed)
    /\ UNCHANGED <<saved, deleted, sanVars, rkVars, cacheVars, lastOp, req, fnVars, cli>>

\* the handler saving whatever generateDataset gave
AfterGenerateDatasetSaveAnyway(g, outcome) ==
    [g EXCEPT !.pc = "saving",
              !.outcome = IF outcome.threw THEN Ret(JsArray(<<>>)) ELSE outcome]

\* the handler asking the model again after a failure
AfterGenerateDatasetRetry(g, outcome) ==
    IF outcome.threw /\ g.calls < 2
    THEN [g EXCEPT !.pc = "model", !.calls = @ + 1]
    ELSE IF outcome.threw
    THEN Fails([g EXCEPT !.outcome = outcome])
    ELSE [g EXCEPT !.pc = "saving", !.outcome = outcome]

\* the handler after generateDataset has settled: the rows go on to
\* dataset.save(), a failure goes to the catch
AfterGenerateDataset(g, outcome) ==
    IF outcome.threw
    THEN Fails([g EXCEPT !.outcome = outcome])
    ELSE [g EXCEPT !.pc = "saving", !.outcome = outcome]

GenerateContentReturns(up) ==
    /\ gen.pc = "model"
    /\ gen' = AfterGenerateDataset(
                 [gen EXCEPT !.up = up],
                 IF gen.kind = "builder"
                 THEN generateDataset(gen.rowCount, gen.formatted, up)
                 ELSE generateDatasetFromParams(gen.rowCount, up))
    /\ UNCHANGED <<saved, deleted, sanVars, rkVars, cacheVars, lastOp, req, fnVars, cli>>

\* new Dataset({...}): the document of the request
Document(g) ==
    [kind |-> g.kind, rowCount |-> g.rowCount, generatedData |-> g.outcome.value,
     references |-> IF Truthy(g.reference)
                    THEN (IF g.kind = "builder" THEN g.reference.referenceSources
                          ELSE <<g.reference.datasetRef>>)
                    ELSE <<>>]

\* dataset.save() has settled: the document is stored and the answer is
\* 201 with the rows, or the save failed
SaveReturns(ok) ==
    /\ gen.pc = "saving"
    /\ IF ok
       THEN /\ saved' = Append(saved, Document(gen))
            /\ gen' = [gen EXCEPT !.pc = "done",
                                  !.response = Response(201, gen.outcome.value)]
       ELSE /\ saved' = saved
            /\ gen' = Fails(gen)
    /\ UNCHANGED <<deleted, sanVars, rkVars, cacheVars, lastOp, req, fnVars, cli>>

\* the documents a DELETE may name: a document is named by its place in
\* the store, and the last place never holds one
DocumentIds == 1..2

\* Array without its element at place i
Without(docs, i) == SubSeq(docs, 1, i - 1) \o SubSeq(docs, i + 1, Len(docs))

\* deleteDatasetController, DELETE /api/datasets/:id, whenever it is asked:
\* Dataset.findByIdAndDelete(id) removes the document and the answer is 200;
\* it is 404 when there is no such document, and 500 when the store fails
DeleteDataset(id, ok) ==
    /\ IF ~ok
       THEN saved' = saved /\ deleted' = Response(500, JsNull)
       ELSE IF id \in 1..Len(saved)
       THEN saved' = Without(saved, id) /\ deleted' = Response(200, JsNull)
       ELSE saved' = saved /\ deleted' = Response(404, JsNull)
    /\ UNCHANGED <<gen, sanVars, rkVars, cacheVars, lastOp, req, fnVars, cli>>

GenNext ==
    \/ \E kind \in GenKinds, rowCount \in GenRowCounts, valid \in BOOLEAN :
          Generate(kind, rowCount, valid)
    \/ \E reference \in GenContexts \cup GenReferences, keyed \in BOOLEAN :
          ReferenceReturns(reference, keyed)
    \/ \E up \in GenerateUps : GenerateContentReturns(up)
    \/ \E ok \in BOOLEAN : SaveReturns(ok)
    \/ \E id \in DocumentIds, ok \in BOOLEAN : DeleteDataset(id, ok)

GenSpec == GenInit /\ [][GenNext]_vars

(***************************************************************************)
(* Spec: requests to the two orchestration functions,                      *)
(* referenceContextBuilder.buildReferenceContext and                       *)
(* kaggleService.getKaggleReference, sharing the two caches.  A request    *)
(* runs to its next await on a fetcher in one step; the fetcher's return   *)
(* is the next step, so that requests interleave where the event loop      *)
(* lets them.                                                              *)
(*                                                                         *)
(* A request is [kind, topic, description, pc, ranked, idx, hfIds, threw,  *)
(* result] and, for the properties, [fetched, allFailed, searchHit,        *)
(* sampleHit, after, startedAt, rankedAt, doneAt, sampled, samples]: the   *)
(* fetchers it has called, whether each of them failed, whether its lookup *)
(* in the search cache and in the sample cache was a hit, the requests     *)
(* that had                                                                *)
(* returned when it arrived, the times of its arrival, of the caching of   *)
(* its ranked list and of its return, the references of the datasets whose *)
(* files gave it a sample, and what getHuggingFaceSamples gave the build.  *)
(***************************************************************************)
ReqIds    == {"r1", "r2"}
\* the clock stops once the search TTL has run out
Horizon   == SearchStdTTL + 1
HfCandidates == 3
WaitSteps == {SearchStdTTL, SearchStdTTL + 1}

\* a listing whose first reference is not owner/name; it is the one that
\* ranks first
CatBad == <<[ref |-> <<"x">>] @@ shCats, [ref |-> RankRefs[1]] @@ shShopData>>

ReqTopics       == {JsString(sShop), JsString(sShopPadded), JsString(sCats), JsNull}
\* with the description "data" the dataset "shop data" ranks first
sData == <<"d","a","t","a">>
ReqDescriptions == {<<>>, sData}
\* the build only logs its description
BuilderDescriptions == {<<>>}
PipeSearchUps   == {Up("timeout"), Up("empty"),
                    [kind |-> "ok", datasets |-> CatSmall],
                    [kind |-> "ok", datasets |-> CatBad]}
\* the metadata search may also list more than TopK datasets
PipeMetadataUps == PipeSearchUps \cup {[kind |-> "ok", datasets |-> CatTies]}
PipeDownloadUps == {Up("error"), Up("timeout"), Up("ok")}
PipeSampleUps   == {Up("malformed"), [kind |-> "ok", sample |-> SampleA]}
PipeHfSearchUps == {Up("timeout"), [kind |-> "ok", ids |-> HfIds]}
PipeHfSampleUps == {Up("timeout"), [kind |-> "ok", sample |-> HfSampleA]}

Idle == [pc |-> "idle"]

\* The rankings of the listings a request can be given.  A ranking depends
\* on its arguments only: each is worked out once, by rankDatasets and by
\* rankDatasetsByRelevance, and a request looks up the one of its arguments.
PipeListings ==
    {JsArray(<<>>)}
    \cup {JsArray(up.datasets) : up \in {u \in PipeMetadataUps : u.kind = "ok"}}
    \cup {JsArray(StripDescription(up.datasets)) :
             up \in {u \in PipeMetadataUps : u.kind = "ok"}}
PipeTopics == {t.chars : t \in {x \in ReqTopics : x.type = "string"}}
DownloadRankings ==
    {[datasets |-> l, topic |-> t, description |-> d,
      ranked |-> rankDatasets(l, t, d).value] :
        l \in PipeListings, t \in PipeTopics, d \in ReqDescriptions}
RelevanceRankings ==
    {[datasets |-> l, topic |-> t,
      ranked |-> rankDatasetsByRelevance(l, t).value] :
        l \in PipeListings, t \in PipeTopics}
\* rankDatasets(datasets, topic, description)
RankedForDownload(datasets, topic, description) ==
    (CHOOSE x \in DownloadRankings :
        x.datasets = datasets /\ x.topic = topic /\ x.description = description).ranked
\* rankDatasetsByRelevance(datasets, topic)
RankedByRelevance(datasets, topic) ==
    (CHOOSE x \in RelevanceRankings :
        x.datasets = datasets /\ x.topic = topic).ranked

NewRequest(kind, topic, description, after, time) ==
    [kind |-> kind, topic |-> topic, description |-> description,
     pc |-> "start", ranked |-> <<>>, idx |-> 0, hfIds |-> <<>>,
     threw |-> FALSE, result |-> JsUndefined,
     fetched |-> {}, allFailed |-> TRUE, searchHit |-> FALSE,
     sampleHit |-> FALSE, after |-> after, startedAt |-> time,
     rankedAt |-> 0, doneAt |-> 0, sampled |-> <<>>, samples |-> JsUndefined]

Done(r, result) == [r EXCEPT !.pc = "done", !.result = result]
Raised(r) == [r EXCEPT !.pc = "done", !.threw = TRUE]
Calls(r, fetcher) == [r EXCEPT !.fetched = @ \cup {fetcher}]
Saw(r, up) == [r EXCEPT !.allFailed = @ /\ UpFailed(up)]
Out(r, sc, dc) == [r |-> r, sc |-> sc, dc |-> dc]

NormalTopic(topic) == Trim(ToLowerCase(topic.chars))
\* the key of the raw topic
KaggleMetadataKeyRaw(topic) == KaggleMetadataPrefix \o topic.chars
KaggleMetadataKey(topic) == KaggleMetadataPrefix \o NormalTopic(topic)
HfSamplesKey(topic)      == HfSamplesPrefix \o NormalTopic(topic)

\* ---- referenceContextBuilder.buildReferenceContext ----

\* the build returns the context assembled from what was retrieved
BuilderReturn(r, hfSamples, sc, dc) ==
    LET outcome == buildReferenceContext(r.topic, r.description, r.ranked, hfSamples)
        got     == [r EXCEPT !.samples = hfSamples]
    IN Out(IF outcome.threw THEN Raised(got) ELSE Done(got, outcome.value), sc, dc)

\* getHuggingFaceSamples up to its first await: the cached samples, or the
\* call of the search
HfStage(r, sc, dc, time) ==
    LET key    == HfSamplesKey(r.topic)
        cached == NcGet(dc, key, time)
        dc2    == NcAfterGet(dc, key, time)
    IN IF Truthy(cached)
       THEN BuilderReturn([r EXCEPT !.sampleHit = TRUE], cached, sc, dc2)
       ELSE Out([Calls(r, "searchHuggingFaceDatasets") EXCEPT !.pc = "hf_search"],
                sc, dc2)

\* buildReferenceContext up to its first await on the network
BuilderStart(r, sc, dc, time) ==
    IF r.topic.type # "string"
    THEN \* getKaggleMetadata and getHuggingFaceSamples catch the TypeError of
         \* topic.toLowerCase(); generateSemanticHints throws it to the build
         BuilderReturn(r, JsNull, sc, dc)
    ELSE LET key    == KaggleMetadataKey(r.topic)
             cached == NcGet(sc, key, time)
             sc2    == NcAfterGet(sc, key, time)
         IN IF Truthy(cached)
            THEN HfStage([r EXCEPT !.searchHit = TRUE, !.ranked = cached.items],
                         sc2, dc, time)
            ELSE IF ~SearchReachesCli(r.topic)
            THEN HfStage(Calls(r, "searchKaggleMetadata"), sc2, dc, time)
            ELSE Out([Calls(r, "searchKaggleMetadata") EXCEPT !.pc = "km_search"],
                     sc2, dc)

\* a build that gives up when the Kaggle search has found nothing
BuilderAfterKmSearchGivesUp(r, up, sc, dc, time) ==
    LET datasets == searchKaggleMetadata(r.topic, up).value
        ranked   == RankedByRelevance(datasets, r.topic.chars)
    IN IF datasets.items = <<>>
       THEN BuilderReturn(r, JsNull, sc, dc)
       ELSE HfStage([r EXCEPT !.ranked = ranked, !.rankedAt = time],
                    NcSet(sc, KaggleMetadataKey(r.topic), JsArray(ranked), time,
                          CacheOptions.search.stdTTL),
                    dc, time)

\* getKaggleMetadata after searchKaggleMetadata has returned
BuilderAfterKmSearch(r, up, sc, dc, time) ==
    LET datasets == searchKaggleMetadata(r.topic, up).value
        ranked   == RankedByRelevance(datasets, r.topic.chars)
    IN IF datasets.items = <<>>
       THEN HfStage(r, sc, dc, time)
       ELSE HfStage([r EXCEPT !.ranked = ranked, !.rankedAt = time],
                    NcSet(sc, KaggleMetadataKey(r.topic), JsArray(ranked), time,
                          CacheOptions.search.stdTTL),
                    dc, time)

\* getHuggingFaceSamples after searchHuggingFaceDatasets has returned
BuilderAfterHfSearch(r, up, sc, dc, time) ==
    LET datasets == searchHuggingFaceDatasets(r.topic.chars, up).value
    IN IF datasets.items = <<>>
       THEN BuilderReturn(r, JsNull, sc, dc)
       ELSE Out([Calls(r, "fetchHuggingFaceSamples") EXCEPT
                    !.pc = "hf_sample", !.hfIds = Slice0(datasets.items, HfCandidates),
                    !.idx = 1],
                sc, dc)

\* getHuggingFaceSamples after fetchHuggingFaceSamples has returned
BuilderAfterHfSample(r, up, sc, dc, time) ==
    LET samples == fetchHuggingFaceSamples(r.hfIds[r.idx], up).value
    IN IF Truthy(samples)
       THEN BuilderReturn(r, samples, sc,
                          NcSet(dc, HfSamplesKey(r.topic), samples, time,
                                CacheOptions.dataset.stdTTL))
       ELSE IF r.idx < Len(r.hfIds)
       THEN Out([r EXCEPT !.idx = @ + 1], sc, dc)
       ELSE BuilderReturn(r, JsNull, sc, dc)

\* ---- kaggleService.getKaggleReference ----

\* the for loop without its look into the sample cache
KrLoopNoCache(r, i, sc, dc, time) ==
    IF i > Len(r.ranked)
    THEN Out(Done(r, JsNull), sc, dc)
    ELSE Out([Calls(r, "downloadDataset") EXCEPT !.pc = "download", !.idx = i],
             sc, dc)

\* the for loop over the ranked datasets, from candidate i up to its next
\* await or its return
RECURSIVE KrLoop(_, _, _, _, _)
KrLoop(r, i, sc, dc, time) ==
    IF i > Len(r.ranked)
    THEN Out(Done(r, JsNull), sc, dc)
    ELSE LET dataset      == r.ranked[i]
             cachedSample == getDatasetSample(dataset.ref, dc, time)
             dc2          == NcAfterGet(dc, generateDatasetKey(dataset.ref), time)
             reference    == kaggleBuildReferenceContext(cachedSample, dataset)
         IN IF Truthy(cachedSample)
            THEN IF reference.threw
                 THEN KrLoop([r EXCEPT !.sampleHit = TRUE], i + 1, sc, dc2, time)
                 ELSE Out(Done([r EXCEPT !.sampleHit = TRUE, !.idx = i],
                               reference.value),
                          setSearchResults(r.topic.chars, r.description,
                                           reference.value, sc, time),
                          dc2)
            ELSE Out([Calls(r, "downloadDataset") EXCEPT !.pc = "download", !.idx = i],
                     sc, dc2)

\* getKaggleReference up to its first await on the Kaggle CLI
KaggleRefStart(r, sc, dc, time) ==
    IF r.topic.type # "string"
    THEN \* generateSearchKey throws; the outer catch returns null
         Out(Done(r, JsNull), sc, dc)
    ELSE LET cached == getSearchResults(r.topic.chars, r.description, sc, time)
             sc2    == NcAfterGet(sc, generateSearchKey(r.topic.chars, r.description),
                                  time)
         IN IF Truthy(cached)
            THEN Out(Done([r EXCEPT !.searchHit = TRUE], cached), sc2, dc)
            ELSE IF ~SearchReachesCli(JsString(r.topic.chars \o <<" ">> \o r.description))
            THEN Out(Done(Calls(r, "searchKaggleDatasets"), JsNull), sc2, dc)
            ELSE Out([Calls(r, "searchKaggleDatasets") EXCEPT !.pc = "search"], sc2, dc)

\* getKaggleReference that stores the empty list when it has no candidate
KaggleRefAfterSearchCachesNone(r, up, sc, dc, time) ==
    LET datasets == searchKaggleDatasets(r.topic.chars, r.description, up).value
        ranked   == RankedForDownload(datasets, r.topic.chars, r.description)
    IN IF datasets.items = <<>> \/ ranked = <<>>
       THEN Out(Done(r, JsNull),
                setSearchResults(r.topic.chars, r.description, JsArray(<<>>),
                                 sc, time),
                dc)
       ELSE KrLoop([r EXCEPT !.ranked = ranked], 1, sc, dc, time)

\* after searchKaggleDatasets has returned
KaggleRefAfterSearch(r, up, sc, dc, time) ==
    LET datasets == searchKaggleDatasets(r.topic.chars, r.description, up).value
        ranked   == RankedForDownload(datasets, r.topic.chars, r.description)
    IN IF datasets.items = <<>> \/ ranked = <<>>
       THEN Out(Done(r, JsNull), sc, dc)
       ELSE KrLoop([r EXCEPT !.ranked = ranked], 1, sc, dc, time)

\* after downloadDataset has returned or thrown
KaggleRefAfterDownload(r, up, sc, dc, time) ==
    IF downloadDataset(r.ranked[r.idx].ref, up).threw
    THEN KrLoop(r, r.idx + 1, sc, dc, time)
    ELSE Out([Calls(r, "sampleDatasetFiles") EXCEPT !.pc = "sample"], sc, dc)

Sampled(r, ref) == [r EXCEPT !.sampled = Append(@, ref)]

\* getKaggleReference that does not cache the sample it has fetched
KaggleRefAfterSampleNoCache(r, up, sc, dc, time) ==
    LET dataset   == r.ranked[r.idx]
        sample    == sampleDatasetFiles(dataset.ref, up).value
        reference == kaggleBuildReferenceContext(sample, dataset)
    IN IF ~Truthy(sample)
       THEN KrLoop(r, r.idx + 1, sc, dc, time)
       ELSE IF reference.threw
       THEN KrLoop(Sampled(r, dataset.ref), r.idx + 1, sc, dc, time)
       ELSE Out(Done(Sampled(r, dataset.ref), reference.value),
                setSearchResults(r.topic.chars, r.description, reference.value,
                                 sc, time),
                dc)

\* after sampleDatasetFiles has returned
KaggleRefAfterSample(r, up, sc, dc, time) ==
    LET dataset   == r.ranked[r.idx]
        sample    == sampleDatasetFiles(dataset.ref, up).value
        dc2       == setDatasetSample(dataset.ref, sample, dc, time)
        reference == kaggleBuildReferenceContext(sample, dataset)
    IN IF ~Truthy(sample)
       THEN KrLoop(r, r.idx + 1, sc, dc, time)
       ELSE IF reference.threw
       THEN KrLoop(Sampled(r, dataset.ref), r.idx + 1, sc, dc2, time)
       ELSE Out(Done(Sampled(r, dataset.ref), reference.value),
                setSearchResults(r.topic.chars, r.description, reference.value,
                                 sc, time),
                dc2)

\* ---- the actions ----
Init ==
    /\ req = [id \in ReqIds |-> Idle]
    /\ now = 0 /\ ticks = 0
    /\ searchCache = EmptyStore /\ datasetCache = EmptyStore
    /\ lastOp = [calls |-> 0, ops |-> <<>>]
    /\ IdleSan /\ IdleRank /\ IdleFetch /\ IdleGen /\ IdleCli

Apply(id, out) ==
    /\ req' = [req EXCEPT ![id] = IF out.r.pc = "done"
                                    THEN [out.r EXCEPT !.doneAt = now]
                                    ELSE out.r]
    /\ searchCache' = out.sc
    /\ datasetCache' = out.dc
    /\ UNCHANGED <<now, ticks, lastOp, sanVars, rkVars, fnVars, genVars, cli>>

Returned == {id \in ReqIds : req[id].pc = "done"}

\* requests are taken in order: r2 arrives after r1 has
Arrives(id) ==
    /\ req[id].pc = "idle"
    /\ id = "r2" => req["r1"].pc # "idle"

BuildReferenceContext(id) ==
    /\ Arrives(id)
    /\ \E topic \in ReqTopics, description \in BuilderDescriptions :
          Apply(id, BuilderStart(NewRequest("builder", topic, description,
                                            Returned, now),
                                 searchCache, datasetCache, now))

SearchKaggleMetadataReturns(id) ==
    /\ req[id].pc = "km_search"
    /\ \E up \in PipeMetadataUps :
          Apply(id, BuilderAfterKmSearch(Saw(req[id], up), up, searchCache, datasetCache, now))

SearchHuggingFaceReturns(id) ==
    /\ req[id].pc = "hf_search"
    /\ \E up \in PipeHfSearchUps :
          Apply(id, BuilderAfterHfSearch(Saw(req[id], up), up, searchCache, datasetCache, now))

FetchHuggingFaceSamplesReturns(id) ==
    /\ req[id].pc = "hf_sample"
    /\ \E up \in PipeHfSampleUps :
          Apply(id, BuilderAfterHfSample(Saw(req[id], up), up, searchCache, datasetCache, now))

GetKaggleReference(id) ==
    /\ Arrives(id)
    /\ \E topic \in ReqTopics, description \in ReqDescriptions :
          Apply(id, KaggleRefStart(NewRequest("kaggleRef", topic, description,
                                              Returned, now),
                                   searchCache, datasetCache, now))

SearchKaggleDatasetsReturns(id) ==
    /\ req[id].pc = "search"
    /\ \E up \in PipeSearchUps :
          Apply(id, KaggleRefAfterSearch(Saw(req[id], up), up, searchCache, datasetCache, now))

DownloadDatasetReturns(id) ==
    /\ req[id].pc = "download"
    /\ \E up \in PipeDownloadUps :
          Apply(id, KaggleRefAfterDownload(Saw(req[id], up), up, searchCache, datasetCache, now))

SampleDatasetFilesReturns(id) ==
    /\ req[id].pc = "sample"
    /\ \E up \in PipeSampleUps :
          Apply(id, KaggleRefAfterSample(Saw(req[id], up), up, searchCache, datasetCache, now))

\* time passes between two steps
Wait ==
    /\ \E d \in WaitSteps : now + d <= Horizon /\ now' = now + d
    /\ UNCHANGED ticks
    /\ UNCHANGED <<searchCache, datasetCache, lastOp, req, sanVars, rkVars, fnVars, genVars, cli>>

Next ==
    \/ \E id \in ReqIds :
          \/ BuildReferenceContext(id)
          \/ SearchKaggleMetadataReturns(id)
          \/ SearchHuggingFaceReturns(id)
          \/ FetchHuggingFaceSamplesReturns(id)
          \/ GetKaggleReference(id)
          \/ SearchKaggleDatasetsReturns(id)
          \/ DownloadDatasetReturns(id)
          \/ SampleDatasetFilesReturns(id)
    \/ Wait
    \/ SweepSearch

Spec == Init /\ [][Next]_vars

(***************************************************************************)
(* The race of a Kaggle CLI command against its timer (RaceSpec)           *)
(*                                                                         *)
(* searchKaggleDatasets and downloadDataset await Promise.race of the      *)
(* command and of a timer that rejects.  The command is not killed when    *)
(* the timer wins and the timer is not cleared when the command wins: each *)
(* ends later with nobody waiting for it.  searchKaggleDatasets starts its *)
(* command and its timer in the step that calls it; downloadDataset first  *)
(* awaits fs.mkdir, with no command and no timer of its own yet, and       *)
(* starts them when the directory is there.  One getKaggleReference        *)
(* request, r1, runs; the clock moves to the next end of a command or of a *)
(* timer, and two that are due at the same instant end in either order.    *)
(***************************************************************************)
\* kaggleService.js, in milliseconds; now is in seconds
SEARCH_TIMEOUT   == 30000
DOWNLOAD_TIMEOUT == 60000
Seconds(ms) == ms \div 1000

RaceTopics      == {JsString(sShop)}
\* how long a command runs, in seconds
RaceTakes       == {1, 30, 31, 60, 61}
RaceSearchUps   == {Up("error"), Up("empty"),
                    [kind |-> "ok", datasets |-> CatSmall],
                    [kind |-> "ok", datasets |-> CatBad]}
\* fs.mkdir(datasetDir, { recursive: true }) of downloadDataset
RaceMkdirUps    == {Up("error"), Up("ok")}
RaceDownloadUps == {Up("error"), Up("ok")}

\* the call the request is waiting for
Awaited(r) == IF r.pc = "search" THEN "searchKaggleDatasets" ELSE "downloadDataset"
TimeoutOf(fn) ==
    IF fn = "searchKaggleDatasets" THEN SEARCH_TIMEOUT ELSE DOWNLOAD_TIMEOUT

\* execAsync(command): the command ends at endsAt with the outcome up
Command(r, up, takes, time) ==
    [fn |-> Awaited(r), idx |-> r.idx, up |-> up, endsAt |-> time + takes]
\* setTimeout(() => reject(...), TIMEOUT)
Timer(r, time) ==
    [fn |-> Awaited(r), idx |-> r.idx,
     at |-> time + Seconds(TimeoutOf(Awaited(r)))]

\* Promise.race([execAsync(command), timer]) of the call r is in
Raced(c, r, up, takes, time) ==
    LET p == Command(r, up, takes, time)
        t == Timer(r, time)
    IN [c EXCEPT !.procs = @ \cup {p}, !.timers = @ \cup {t},
                 !.race = [proc |-> p, timer |-> t]]
\* the race is settled: the request awaits no command and no timer
Unraced(c) == [c EXCEPT !.race = NotRun]

\* getKaggleReference goes on with what the awaited call gave
Settled(r, up, sc, dc, time) ==
    IF r.pc = "search"
    THEN KaggleRefAfterSearch(Saw(r, up), up, sc, dc, time)
    ELSE KaggleRefAfterDownload(Saw(r, up), up, sc, dc, time)

Events == {p.endsAt : p \in cli.procs} \cup {t.at : t \in cli.timers}
Due(time) == time \in Events /\ \A e \in Events : time <= e
Racing(p) == cli.race # NotRun /\ cli.race.proc = p
Armed(t)  == cli.race # NotRun /\ cli.race.timer = t

Finished(r, time) == IF r.pc = "done" THEN [r EXCEPT !.doneAt = time] ELSE r

RaceApply(out, c, time) ==
    /\ req' = [req EXCEPT !["r1"] = Finished(out.r, time)]
    /\ searchCache' = out.sc
    /\ datasetCache' = out.dc
    /\ cli' = c
    /\ now' = time
    /\ UNCHANGED <<ticks, lastOp, sanVars, rkVars, fnVars, genVars>>

RaceIdle(c, time) ==
    /\ cli' = c
    /\ now' = time
    /\ UNCHANGED <<req, searchCache, datasetCache, ticks, lastOp, sanVars,
                   rkVars, fnVars, genVars>>

RaceInit == Init

\* getKaggleReference runs into searchKaggleDatasets, which starts its
\* command and its timer before its first await
RaceGetKaggleReference ==
    /\ req["r1"].pc = "idle"
    /\ \E topic \in RaceTopics :
          LET out == KaggleRefStart(NewRequest("kaggleRef", topic, <<>>, {}, now),
                                    searchCache, datasetCache, now)
          IN IF out.r.pc = "search"
             THEN \E up \in RaceSearchUps, takes \in RaceTakes :
                     RaceApply(out, Raced(cli, out.r, up, takes, now), now)
             ELSE RaceApply(out, cli, now)

\* fs.mkdir of downloadDataset returns: the command and its timer start; or
\* it throws, and downloadDataset throws with it
MkdirReturns ==
    /\ req["r1"].pc = "download" /\ cli.race = NotRun
    /\ \E made \in RaceMkdirUps :
          IF made.kind = "ok"
          THEN \E up \in RaceDownloadUps, takes \in RaceTakes :
                  RaceIdle(Raced(cli, req["r1"], up, takes, now), now)
          ELSE RaceApply(Settled(req["r1"], made, searchCache, datasetCache, now),
                         cli, now)

\* the command ends before its timer: the call returns or throws as the
\* command did
CommandEnds ==
    \E p \in cli.procs :
       /\ Due(p.endsAt) /\ Racing(p)
       /\ RaceApply(Settled(req["r1"], p.up, searchCache, datasetCache, p.endsAt),
                    Unraced([cli EXCEPT !.procs = @ \ {p}]), p.endsAt)

\* the timer fires before the command ends: the race rejects; the command
\* runs on
TimerFires ==
    \E t \in cli.timers :
       /\ Due(t.at) /\ Armed(t)
       /\ RaceApply(Settled(req["r1"], Up("timeout"), searchCache, datasetCache,
                            t.at),
                    Unraced([cli EXCEPT !.timers = @ \ {t},
                                        !.timedOut = @ \cup {[fn |-> t.fn,
                                                              idx |-> t.idx]}]),
                    t.at)

\* a command ends after its race was settled: its promise has no handler left
CommandEndsLate ==
    \E p \in cli.procs :
       /\ Due(p.endsAt) /\ ~Racing(p)
       /\ RaceIdle([cli EXCEPT !.procs = @ \ {p},
                               !.late = @ \cup {[what |-> "command", fn |-> p.fn,
                                                 idx |-> p.idx, kind |-> p.up.kind]}],
                   p.endsAt)

\* a timer fires after its race was settled: its rejection has no handler left
TimerFiresLate ==
    \E t \in cli.timers :
       /\ Due(t.at) /\ ~Armed(t)
       /\ RaceIdle([cli EXCEPT !.timers = @ \ {t},
                               !.late = @ \cup {[what |-> "timer", fn |-> t.fn,
                                                 idx |-> t.idx, kind |-> "timeout"]}],
                   t.at)

\* sampleDatasetFiles reads the downloaded files; it is not raced
RaceSampleReturns ==
    /\ req["r1"].pc = "sample"
    /\ \E sampled \in PipeSampleUps :
          RaceApply(KaggleRefAfterSample(Saw(req["r1"], sampled), sampled,
                                         searchCache, datasetCache, now),
                    cli, now)

RaceNext ==
    \/ RaceGetKaggleReference
    \/ MkdirReturns
    \/ CommandEnds
    \/ TimerFires
    \/ CommandEndsLate
    \/ TimerFiresLate
    \/ RaceSampleReturns

RaceSpec == RaceInit /\ [][RaceNext]_vars

(***************************************************************************)
(* Properties of the ranking (RankSpec)                                    *)
(***************************************************************************)
RankRan == rkOut.type = "array"

\* the place of the candidate with reference r in the fetched list
PosOfRef(items, r) == CHOOSE i \in 1..Len(items) : items[i].ref = r

\* C8: rankDatasetsByRelevance and rankDatasets return at most 3 results, in
\* non-increasing order of relevanceScore, and an empty or missing candidate
\* list yields the empty result
C8_RankTop3Sorted ==
    /\ RankRan =>
          /\ Len(rkOut.items) <= 3
          /\ \A i \in 1..(Len(rkOut.items) - 1) :
                 ScoreGeq(rkOut.items[i].relevanceScore,
                          rkOut.items[i + 1].relevanceScore)
          /\ (rkIn.datasets.type # "array" => rkOut.items = <<>>)
          /\ (rkIn.datasets.type = "array" =>
                 Len(rkOut.items) = Min(Len(rkIn.datasets.items), 3))
    /\ (rkOut # NotRun /\ rkIn.datasets \in {JsNull, JsUndefined, JsArray(<<>>)}) =>
          rkOut = JsArray(<<>>)

\* a ranking of more than 3 candidates whose first result scores strictly
\* more than its last, although the best candidate was not fetched first
C8_Witness ==
    /\ RankRan
    /\ rkIn.datasets.type = "array"
    /\ Len(rkIn.datasets.items) > 3
    /\ Len(rkOut.items) = 3
    /\ ~ScoreGeq(rkOut.items[3].relevanceScore, rkOut.items[1].relevanceScore)
    /\ rkOut.items[1].ref # rkIn.datasets.items[1].ref

\* C9: ranking is stable: results of equal relevanceScore keep the relative
\* order of the fetched list, and the results are the first ones of the
\* total order "score descending, then fetch order"
C9_RankStable ==
    (RankRan /\ rkIn.datasets.type = "array") =>
        LET inp == rkIn.datasets.items
            out == rkOut.items
            Before(a, b) ==
                \/ ~ScoreGeq(b.relevanceScore, a.relevanceScore)
                \/ /\ ScoreEq(a.relevanceScore, b.relevanceScore)
                   /\ PosOfRef(inp, a.ref) < PosOfRef(inp, b.ref)
            scoredIn == IF rkIn.fn = "rankDatasets"
                        THEN ScoreAllForDownload(inp, rkIn.topic, rkIn.description)
                        ELSE ScoreAllByRelevance(inp, rkIn.topic)
        IN /\ \A i, j \in 1..Len(out) : i < j => Before(out[i], out[j])
           /\ \A i \in 1..Len(out) : \A k \in 1..Len(scoredIn) :
                  \/ \E j \in 1..Len(out) : out[j].ref = scoredIn[k].ref
                  \/ Before(out[i], scoredIn[k])

\* a ranking whose result holds two candidates of equal score, and that left
\* out a third candidate of that same score fetched later
C9_Witness ==
    /\ RankRan
    /\ rkIn.datasets.type = "array"
    /\ Len(rkIn.datasets.items) > 3
    /\ \E i, j \in 1..Len(rkOut.items) :
          /\ i < j
          /\ ScoreEq(rkOut.items[i].relevanceScore, rkOut.items[j].relevanceScore)
          /\ rkOut.items[j].ref = rkIn.datasets.items[3].ref
          /\ rkIn.datasets.items[4].title = rkOut.items[j].title

(***************************************************************************)
(* Properties of sanitizeSearchQuery (SanSpec)                             *)
(***************************************************************************)
SanRan == sanOut.type = "string"

\* the characters [a-zA-Z0-9 _,-]
InSafeClass(c) ==
    \/ c \in LowerLetters \/ c \in UpperLetters \/ c \in Digits
    \/ c \in {" ", "_", ",", "-"}

\* C10: the output of sanitizeSearchQuery holds only characters of
\* [a-zA-Z0-9 _,-], is at most 200 long, and is empty for an argument that
\* is not a string or is the empty string
C10_SanitizeSafeChars ==
    SanRan =>
        /\ \A i \in 1..Len(sanOut.chars) : InSafeClass(sanOut.chars[i])
        /\ Len(sanOut.chars) <= 200
        /\ (sanIn.type # "string" => sanOut.chars = <<>>)
        /\ (sanIn.type = "string" /\ sanIn.chars = <<>> => sanOut.chars = <<>>)

(***************************************************************************)
(* Properties of the cache service (CacheSpec)                             *)
(***************************************************************************)
\* the last two calls were set(k, v) and then get(k) on the same partition,
\* with no time passing in between
SetThenGet ==
    /\ Len(lastOp.ops) = 2
    /\ lastOp.ops[1].op = "set"
    /\ lastOp.ops[2].op = "get"
    /\ lastOp.ops[1].part = lastOp.ops[2].part
    /\ lastOp.ops[1].arg = lastOp.ops[2].arg
    /\ lastOp.ops[1].at = lastOp.ops[2].at

\* C6 as stated: for every key and every value v, set(k, v) followed
\* immediately by get(k) returns v, on both partitions
C6_SetGetAnyValue ==
    SetThenGet => lastOp.ops[2].ret = lastOp.ops[1].v

\* C6 amended: set(k, v) followed immediately by get(k) returns v for every
\* truthy v (every object or array); for a falsy v (0, "") the wrapper
\* reports a miss, null
C6_SetGetTruthy ==
    SetThenGet =>
        /\ Truthy(lastOp.ops[1].v) => lastOp.ops[2].ret = lastOp.ops[1].v
        /\ ~Truthy(lastOp.ops[1].v) => lastOp.ops[2].ret = JsNull

\* an object stored under a padded upper-case topic was read back at once
C6_Witness ==
    /\ SetThenGet
    /\ lastOp.ops[1].part = "search"
    /\ lastOp.ops[1].arg = sShopPadded
    /\ lastOp.ops[1].v = JsObject(1)
    /\ lastOp.ops[2].ret = JsObject(1)

\* the last call was a get that found an entry in the store
GotEntry ==
    /\ lastOp.ops # <<>>
    /\ lastOp.ops[Len(lastOp.ops)].op = "get"
    /\ lastOp.ops[Len(lastOp.ops)].seen.present
LastGet == lastOp.ops[Len(lastOp.ops)]

\* C7: a get more than one hour (search results) or 24 hours (samples)
\* after the entry was set reports a miss, whether or not the periodic check
\* has removed the entry
C7_ExpiredIsMiss ==
    GotEntry =>
        /\ (LastGet.part = "search" /\ LastGet.at > LastGet.seen.at + 3600)
              => LastGet.ret = JsNull
        /\ (LastGet.part = "dataset" /\ LastGet.at > LastGet.seen.at + 86400)
              => LastGet.ret = JsNull

\* a get met an object that was set 3601 seconds earlier and that no
\* periodic check had removed, and reported a miss
C7_Witness ==
    /\ GotEntry
    /\ LastGet.part = "search"
    /\ LastGet.seen.v = JsObject(1)
    /\ LastGet.at = LastGet.seen.at + 3601
    /\ LastGet.ret = JsNull

\* C11: sanitizeSearchQuery is idempotent: sanitizing its output again
\* gives the same output, also when the 200-character prefix of a longer
\* input ends in white space
C11_SanitizeIdempotent ==
    SanRan => sanitizeSearchQuery(sanOut) = sanOut.chars

\* the cache API call made in this step (CacheSpec, PartSpec)
ApiCalled == lastOp'.calls = lastOp.calls + 1
ThisOp == lastOp'.ops[Len(lastOp'.ops)]
\* every entry of the store but the one under key is as it was
OthersKept(before, after, key) ==
    /\ DOMAIN after \subseteq DOMAIN before \cup {key}
    /\ \A k \in DOMAIN before \ {key} : k \in DOMAIN after /\ after[k] = before[k]

\* C28: setSearchResults leaves the sample cache as it was and
\* setDatasetSample the search cache; either leaves every other key of its
\* own store as it was and holds the new value under its key; clearAll
\* leaves both stores empty, whatever they held: after it every key it
\* flushed reads as a miss
C28_PartitionsIndependent ==
    [][ApiCalled =>
          /\ (ThisOp.op = "set" /\ ThisOp.part = "search") =>
                LET key == SearchPrefix \o Trim(ToLowerCase(ThisOp.arg))
                IN /\ datasetCache' = datasetCache
                   /\ OthersKept(searchCache, searchCache', key)
                   /\ key \in DOMAIN searchCache'
                   /\ searchCache'[key].v = ThisOp.v
          /\ (ThisOp.op = "set" /\ ThisOp.part = "dataset") =>
                LET key == DatasetPrefix \o ThisOp.arg
                IN /\ searchCache' = searchCache
                   /\ OthersKept(datasetCache, datasetCache', key)
                   /\ key \in DOMAIN datasetCache'
                   /\ datasetCache'[key].v = ThisOp.v
          /\ ThisOp.op = "clear" =>
                /\ ThisOp.flushed.search = DOMAIN searchCache
                /\ ThisOp.flushed.dataset = DOMAIN datasetCache
                /\ searchCache' = EmptyStore /\ datasetCache' = EmptyStore
                /\ \A topic \in CacheTopics :
                       getSearchResults(topic, <<>>, searchCache', now') = JsNull
                /\ \A ref \in CacheRefs :
                       getDatasetSample(ref, datasetCache', now') = JsNull
      ]_vars

\* a sample was stored while the search store held a result, and clearAll
\* then flushed an entry of each store: both stores are empty
C28_Witness ==
    /\ lastOp.calls = 3
    /\ lastOp.ops[1].op = "set" /\ lastOp.ops[1].part = "dataset"
    /\ lastOp.ops[2].op = "clear"
    /\ lastOp.ops[2].flushed.search = {SearchPrefix \o sShop}
    /\ lastOp.ops[2].flushed.dataset = {DatasetPrefix \o lastOp.ops[1].arg}
    /\ searchCache = EmptyStore /\ datasetCache = EmptyStore

(***************************************************************************)
(* Properties of inferColumnType (InferSpec)                               *)
(***************************************************************************)
InferRan == fnOut # NotRun /\ fnIn.fn = "inferColumnType" /\ ~fnOut.threw

\* the values the rules look at
NotEmpty(v) == v # JsNull /\ v # JsUndefined /\ v # JsString(<<>>)
Valid == IF fnIn.a1.type = "array" THEN FilterSeq(fnIn.a1.items, NotEmpty) ELSE <<>>

AllBoolean == \A i \in 1..Len(Valid) : booleanPattern(ToStr(Valid[i]))
AllNumeric == \A i \in 1..Len(Valid) : numberPattern(ToStr(Valid[i]))
AnyDot     == \E i \in 1..Len(Valid) : \E k \in 1..Len(ToStr(Valid[i])) :
                  ToStr(Valid[i])[k] = "."
AnyDate    == \E i \in 1..Len(Valid) : datePattern(ToStr(Valid[i]))
AnyEmail   == \E i \in 1..Len(Valid) : emailPattern(ToStr(Valid[i]))
AnyUrl     == \E i \in 1..Len(Valid) : urlPattern(ToStr(Valid[i]))
AnyPhone   == \E i \in 1..Len(Valid) :
                  phonePattern(ToStr(Valid[i])) /\ Len(ToStr(Valid[i])) >= 10

Strs(texts) == JsArray([i \in 1..Len(texts) |-> JsString(texts[i])])

\* C12: inferColumnType returns the datatype of the first rule that matches,
\* in the order boolean (all), integer or float (all numeric; float iff a
\* value holds "."), date (any), email (any), url (any), phone (any), else
\* string; the rules look at the values that are not null, undefined or "",
\* and no such value gives string; the five examples come out as stated
C12_FirstMatchingRule ==
    /\ InferRan =>
         fnOut.value =
            IF Valid = <<>> THEN "string"
            ELSE IF AllBoolean THEN "boolean"
            ELSE IF AllNumeric /\ ~AnyDot THEN "integer"
            ELSE IF AllNumeric THEN "float"
            ELSE IF AnyDate THEN "date"
            ELSE IF AnyEmail THEN "email"
            ELSE IF AnyUrl THEN "url"
            ELSE IF AnyPhone THEN "phone"
            ELSE "string"
    /\ (InferRan /\ fnIn.a1 = Strs(<<<<"1">>, <<"2">>, <<"3">>>>)) => fnOut.value = "integer"
    /\ (InferRan /\ fnIn.a1 = Strs(<<<<"1",".","5">>, <<"2",".","0">>>>)) => fnOut.value = "float"
    /\ (InferRan /\ fnIn.a1 = Strs(<<<<"t","r","u","e">>, <<"f","a","l","s","e">>>>)) => fnOut.value = "boolean"
    /\ (InferRan /\ fnIn.a1 = Strs(<<<<"2","0","2","4","-","0","1","-","0","1">>, <<"2","0","2","4","-","0","2","-","0","1">>>>)) => fnOut.value = "date"
    /\ (InferRan /\ fnIn.a1 = Strs(<<<<"a","@","b",".","c","o","m">>>>)) => fnOut.value = "email"

\* a column with a phone number, an email address and an empty value is an
\* email column: the email rule comes before the phone rule
C12_Witness ==
    /\ InferRan
    /\ fnIn.a1 = Strs(<<<<"1","2","3"," ","4","5","6"," ","7","8","9","0">>, <<>>, <<"a","@","b",".","c","o","m">>>>)
    /\ fnOut.value = "email"

\* the sequences that hold the same values as s in another order
Reorderings(s) ==
    {[i \in 1..Len(s) |-> s[p[i]]] :
        p \in {q \in [1..Len(s) -> 1..Len(s)] :
                  \A i, j \in 1..Len(s) : q[i] = q[j] => i = j}}

\* C13: inferColumnType gives the same datatype for every permutation of the
\* value sequence
C13_OrderIndependent ==
    (InferRan /\ fnIn.a1.type = "array") =>
        \A items \in Reorderings(fnIn.a1.items) :
            inferColumnType(JsArray(items)) = fnOut

\* a column whose date comes last, after a text and an email address
C13_Witness ==
    /\ InferRan
    /\ fnIn.a1 = Strs(<<<<"a","b","c">>, <<"a","@","b",".","c","o","m">>, <<"2","0","2","4","-","0","1","-","0","1">>>>)
    /\ fnOut.value = "date"

OnlyDigits(s) == s # <<>> /\ \A i \in 1..Len(s) : s[i] \in Digits
IsoDate(s)    == Len(s) = 10 /\ datePattern(s)

\* a column of all-digit strings with at least one YYYY-MM-DD value in it
DigitsWithDateOutlier ==
    /\ fnIn.a1.type = "array"
    /\ \A i \in 1..Len(fnIn.a1.items) :
          /\ fnIn.a1.items[i].type = "string"
          /\ OnlyDigits(fnIn.a1.items[i].chars) \/ IsoDate(fnIn.a1.items[i].chars)
    /\ \E i \in 1..Len(fnIn.a1.items) : OnlyDigits(fnIn.a1.items[i].chars)
    /\ \E i \in 1..Len(fnIn.a1.items) : IsoDate(fnIn.a1.items[i].chars)

\* C14 as stated: a column of all-digit strings with one date-like outlier is
\* classified by the numeric rule, the date rule not being reached
C14_OutlierColumnIsNumeric ==
    (InferRan /\ DigitsWithDateOutlier) => fnOut.value \in {"integer", "float"}

\* C14 amended: the date-like value does not match the numeric pattern, so
\* the numeric rule, which needs all values, fails and the date rule, which
\* needs any value, classifies the column as date
C14_OutlierColumnIsDate ==
    (InferRan /\ DigitsWithDateOutlier) => fnOut.value = "date"

\* the column "1", "2024-01-01", "2" is a date column
C14_Witness ==
    /\ InferRan
    /\ fnIn.a1 = Strs(<<<<"1">>, <<"2","0","2","4","-","0","1","-","0","1">>, <<"2">>>>)
    /\ fnOut.value = "date"

(***************************************************************************)
(* Properties of formatContextForPrompt (FormatSpec)                       *)
(***************************************************************************)
FormatRan == fnIn # NotRun /\ fnIn.fn = "formatContextForPrompt" /\ fnOut # NotRun

NoSources(context) == ~Truthy(context) \/ context.referenceSources = <<>>

HasLine(lines, text) == \E i \in 1..Len(lines) : lines[i].text = text

AntiCopyBlock(lines) ==
    \E i \in 1..Len(lines) :
        /\ i + Len(CriticalInstructions) - 1 <= Len(lines)
        /\ \A j \in 1..Len(CriticalInstructions) :
              lines[i + j - 1].text = CriticalInstructions[j].text

\* C15: formatContextForPrompt returns the empty string whenever the context
\* has no reference sources (the zero-value context, a context that has
\* hints only, no context at all), and a context with at least one source
\* gets the reference block with the literal instruction block that forbids
\* copying; the block is never part of the result otherwise.
C15_BlockOnlyWithSources ==
    FormatRan =>
        LET context == fnIn.a1
            lines   == fnOut.value
        IN /\ ~fnOut.threw
           /\ NoSources(context) => lines = <<>>
           /\ ~NoSources(context) =>
                 /\ lines[1].text = ReferenceHeader.text
                 /\ HasLine(lines, "Similar datasets found:")
                 /\ AntiCopyBlock(lines)
                 /\ HasLine(lines, "- DO NOT copy any actual data from the reference sources")

\* a context without sources that has hints: nothing is emitted
C15_Witness ==
    /\ FormatRan
    /\ Truthy(fnIn.a1)
    /\ fnIn.a1.referenceSources = <<>>
    /\ fnIn.a1.semanticHints # <<>>
    /\ fnOut.value = <<>>

(***************************************************************************)
(* Properties of the generate request (GenSpec)                            *)
(***************************************************************************)
\* the model has answered with a text and generateDataset has settled
ModelAnswered ==
    gen.pc \in {"saving", "done"} /\ gen.up # NotRun /\ gen.up.kind = "ok"

IsContent(segment) == segment.seg \notin {"fence", "space"}

\* what is left of a text when its code fences and white space are taken away
Content(text) == FilterSeq(text, IsContent)

\* the text is not the serialisation of a JSON value, or of one that is not
\* an array, or of an array without rows
ParseFails(text) ==
    LET body == Content(text)
    IN \/ ~(Len(body) = 1 /\ body[1].seg = "json")
       \/ body[1].value.type # "array"
       \/ body[1].value.items = <<>>

\* C16: every parse failure of the model's text, once the code fences are
\* stripped, makes generateDataset fail: a text that is not JSON, a JSON
\* value that is not an array, and an empty array.
C16_ParseFailureFails ==
    (ModelAnswered /\ ParseFails(gen.up.text)) => gen.outcome.threw

\* the text is prose and nothing else
NonJsonProse(text) ==
    /\ Content(text) # <<>>
    /\ \A i \in 1..Len(Content(text)) : Content(text)[i].seg = "prose"

\* C17: a dataset document is saved only after the model's output has been
\* parsed: the saved document holds the parsed rows of this request, and a
\* request whose model answered with prose ends with the error response and
\* nothing saved.
C17_SavedOnlyAfterParse ==
    /\ saved # <<>> =>
          /\ gen.outcome # NotRun /\ ~gen.outcome.threw
          /\ gen.outcome.value.type = "array"
          /\ saved = <<Document(gen)>>
    /\ (gen.pc = "done" /\ ModelAnswered /\ NonJsonProse(gen.up.text)) =>
          /\ saved = <<>>
          /\ gen.outcome.threw
          /\ gen.response.status = 500

C17_Witness ==
    /\ gen.pc = "done" /\ ModelAnswered
    /\ gen.up.text = <<Prose>>
    /\ saved = <<>> /\ gen.response.status = 500

IsArrayBody(segment) ==
    segment.seg \notin {"space"}
    /\ ~(segment.seg = "fence" /\ segment.tag \in {"", "json"})

\* the text is one JSON array, bare or between ```json and ``` fences
ArrayAnswer(text) ==
    LET body == FilterSeq(text, IsArrayBody)
    IN Len(body) = 1 /\ body[1].seg = "json" /\ body[1].value.type = "array"

AnsweredRows(text) == FilterSeq(text, IsArrayBody)[1].value

\* C18: a model that answers with a non-empty array of n rows, n other than
\* the rowCount asked for, does not make the request fail: generateDataset
\* returns exactly those n rows in the model's order.
C18_MismatchReturnsRows ==
    (/\ ModelAnswered
     /\ ArrayAnswer(gen.up.text)
     /\ AnsweredRows(gen.up.text).items # <<>>
     /\ Len(AnsweredRows(gen.up.text).items) # gen.rowCount)
    => /\ ~gen.outcome.threw
       /\ gen.outcome.value = AnsweredRows(gen.up.text)
       /\ gen.pc = "done" /\ gen.response.status = 201
             => gen.response.body = AnsweredRows(gen.up.text)

C18_Witness ==
    /\ gen.pc = "done" /\ ModelAnswered
    /\ gen.kind = "builder" /\ gen.rowCount = 3
    /\ gen.up.text = <<Json(JsArray(<<JsObject(2), JsObject(1)>>))>>
    /\ gen.outcome = Ret(JsArray(<<JsObject(2), JsObject(1)>>))
    /\ gen.response = Response(201, JsArray(<<JsObject(2), JsObject(1)>>))

\* C19: the model is called at most once per request: generateDataset makes
\* its one generateContent call (none when the model cannot be obtained),
\* and neither a failure of the call nor a text that fails to parse leads
\* to a further call.
C19_ModelCalledOnce ==
    gen.pc # "idle" =>
        /\ gen.calls <= 1
        /\ gen.pc = "model" => gen.calls = 1
        /\ gen.up # NotRun => gen.calls = 1
        /\ (gen.outcome # NotRun /\ gen.up = NotRun) => gen.calls = 0

C19_Witness ==
    /\ gen.pc = "done" /\ ModelAnswered
    /\ ParseFails(gen.up.text)
    /\ gen.outcome.threw
    /\ gen.calls = 1

(***************************************************************************)
(* Properties of the requests (Spec)                                       *)
(***************************************************************************)
Builds     == {id \in ReqIds : req[id].pc = "done" /\ req[id].kind = "builder"}

\* every fetcher the build called failed, and no cache supplied anything
EveryFetcherFailed(r) ==
    /\ r.fetched # {}
    /\ r.allFailed
    /\ ~r.searchHit /\ ~r.sampleHit

\* C1 as stated: the build never throws and never returns null, and when
\* every fetcher fails it returns the zero-value context, all fields empty
C1_AllFailedIsZeroContext ==
    \A id \in Builds :
        /\ ~req[id].threw
        /\ req[id].result.type = "context"
        /\ EveryFetcherFailed(req[id]) => req[id].result = ZeroContext

TopicHint(hint) == hint.columns = <<>>

\* C1 amended: the build never throws and never returns null; when every
\* fetcher fails the sources, column patterns and value examples are empty
\* and the hints are the canned hints of the topic's keywords alone, which
\* are there for a topic such as "shop"; a topic that is not a string gives
\* the zero-value context
C1_AllFailedNoSources ==
    \A id \in Builds :
        LET r == req[id]
        IN /\ ~r.threw
           /\ r.result.type = "context"
           /\ EveryFetcherFailed(r) =>
                 /\ r.result.referenceSources = <<>>
                 /\ r.result.columnPatterns = <<>>
                 /\ r.result.valueExamples = <<>>
                 /\ \A i \in 1..Len(r.result.semanticHints) :
                        TopicHint(r.result.semanticHints[i])
                 /\ r.result.semanticHints =
                        generateSemanticHints(r.topic, r.description, ZeroContext).value
           /\ r.topic.type # "string" => r.result = ZeroContext

\* both searches of a build for "shop" failed: no sources, three hints
C1_Witness ==
    \E id \in Builds :
        /\ req[id].topic = JsString(sShop)
        /\ EveryFetcherFailed(req[id])
        /\ req[id].fetched = {"searchKaggleMetadata", "searchHuggingFaceDatasets"}
        /\ req[id].result.referenceSources = <<>>
        /\ Len(req[id].result.semanticHints) = 3

\* C4 as stated: a request that found its topic in the search cache called
\* no fetcher at all
C4_SearchHitCallsNoFetcher ==
    \A id \in ReqIds :
        (req[id].pc # "idle" /\ req[id].searchHit) => req[id].fetched = {}

\* the live entry of the search cache for the request that arrives
SearchEntryFor(kind, topic) ==
    NcGet(searchCache,
          IF kind = "builder" THEN KaggleMetadataKey(topic)
          ELSE SearchPrefix \o NormalTopic(topic),
          now)
SampleEntryFor(topic) == NcGet(datasetCache, HfSamplesKey(topic), now)

\* what a request that arrives in this step does on a hit
HitOnArrival(id) ==
    LET r == req'[id]
    IN (req[id].pc = "idle" /\ r.pc # "idle" /\ r.topic.type = "string"
        /\ Truthy(SearchEntryFor(r.kind, r.topic))) =>
          /\ r.searchHit
          /\ r.kind = "kaggleRef" =>
                /\ r.pc = "done"
                /\ r.result = SearchEntryFor(r.kind, r.topic)
                /\ r.fetched = {}
          /\ r.kind = "builder" =>
                /\ r.ranked = SearchEntryFor(r.kind, r.topic).items
                /\ IF Truthy(SampleEntryFor(r.topic))
                   THEN r.pc = "done" /\ r.fetched = {}
                   ELSE r.pc = "hf_search"
                        /\ r.fetched = {"searchHuggingFaceDatasets"}

\* C4 amended: getKaggleReference returns the live entry of its normalized
\* topic at once and calls no fetcher; buildReferenceContext takes the ranked
\* Kaggle list from the live entry and never calls the Kaggle search, but it
\* still calls the Hugging Face fetchers unless the sample cache holds the
\* topic's samples
C4_SearchHitSkipsKaggle ==
    /\ [](\A id \in ReqIds :
             (req[id].pc # "idle" /\ req[id].searchHit) =>
                 /\ req[id].fetched \subseteq {"searchHuggingFaceDatasets",
                                               "fetchHuggingFaceSamples"}
                 /\ req[id].kind = "kaggleRef" => req[id].fetched = {})
    /\ [][\A id \in ReqIds : HitOnArrival(id)]_vars

\* a getKaggleReference for " SHOP " returned the reference cached for
\* "shop", and a build found its ranked list and went on to Hugging Face
C4_Witness ==
    /\ req["r1"].pc = "done" /\ req["r2"].pc = "done"
    /\ req["r1"].kind = "kaggleRef" /\ req["r2"].kind = "kaggleRef"
    /\ req["r1"].topic = JsString(sShop)
    /\ req["r2"].topic = JsString(sShopPadded)
    /\ req["r2"].searchHit
    /\ req["r2"].fetched = {}
    /\ req["r2"].result = req["r1"].result
    /\ req["r2"].result.type = "reference"

\* the build retrieved at least one source
Retrieved(r) ==
    IF r.kind = "builder"
    THEN r.result.type = "context" /\ r.result.referenceSources # <<>>
    ELSE r.result.type = "reference"

\* r2 is a later request of the same function for the same normalized topic
\* that arrived after r1 had returned, no later than ttl after time at
Repeats(r1, r2, at, ttl) ==
    /\ r1 # r2
    /\ req[r1].pc = "done" /\ req[r2].pc = "done"
    /\ req[r1].kind = req[r2].kind
    /\ req[r1].topic.type = "string" /\ req[r2].topic.type = "string"
    /\ NormalTopic(req[r1].topic) = NormalTopic(req[r2].topic)
    /\ r1 \in req[r2].after
    /\ req[r2].startedAt <= at + ttl

\* C5 as stated: a build that follows, within the hour, a build for the same
\* normalized topic that retrieved a source returns the same context
C5_RepeatReturnsSame ==
    \A r1 \in ReqIds, r2 \in ReqIds :
        (Repeats(r1, r2, req[r1].doneAt, SearchStdTTL) /\ Retrieved(req[r1]))
            => req[r2].result = req[r1].result

\* what a request that returns in this step leaves in the search cache
CachedOnReturn(id) ==
    LET r == req'[id]
    IN (req[id].pc # "done" /\ r.pc = "done" /\ r.kind = "kaggleRef"
        /\ r.result.type = "reference") =>
          LET key == SearchPrefix \o NormalTopic(r.topic)
          IN /\ key \in DOMAIN searchCache'
             /\ searchCache'[key].v = r.result
             /\ ~r.searchHit => searchCache'[key].t = now + SearchStdTTL

\* C5 amended: getKaggleReference leaves the reference it returns in the
\* search cache under the normalized topic, and a later call within the hour
\* returns that reference without a fetch; buildReferenceContext stores only
\* the ranked Kaggle list, so a later build within the hour of that store has
\* the same Kaggle list without a search, and the same context only when the
\* first build also retrieved the Hugging Face samples
C5_RepeatReusesWhatWasCached ==
    /\ [](\A r1 \in ReqIds, r2 \in ReqIds :
            /\ (Repeats(r1, r2, req[r1].doneAt, SearchStdTTL)
                /\ req[r1].kind = "kaggleRef" /\ Retrieved(req[r1]))
                   => /\ req[r2].result = req[r1].result
                      /\ req[r2].fetched = {}
            /\ (Repeats(r1, r2, req[r1].rankedAt, SearchStdTTL)
                /\ req[r1].kind = "builder" /\ req[r1].ranked # <<>>
                /\ ~req[r1].searchHit)
                   => /\ req[r2].ranked = req[r1].ranked
                      /\ "searchKaggleMetadata" \notin req[r2].fetched
                      /\ (\E i \in 1..Len(req[r1].result.referenceSources) :
                            req[r1].result.referenceSources[i].sourceType
                                = "huggingface")
                            => req[r2].result = req[r1].result)
    /\ [][\A id \in ReqIds : CachedOnReturn(id)]_vars

\* a build for "shop" ranked and cached the Kaggle list; the build for
\* " SHOP " an hour later has the same list, but not the same context
C5_Witness ==
    /\ Repeats("r1", "r2", req["r1"].rankedAt, SearchStdTTL)
    /\ req["r1"].kind = "builder"
    /\ req["r1"].topic = JsString(sShop)
    /\ req["r2"].topic = JsString(sShopPadded)
    /\ req["r2"].startedAt = SearchStdTTL
    /\ req["r1"].ranked # <<>>
    /\ req["r2"].ranked = req["r1"].ranked
    /\ req["r2"].searchHit
    /\ req["r2"].result # req["r1"].result

\* the sources of a finished build
SourcesBuilt(id) == req[id].result.referenceSources
KaggleSources(sources) == FilterSeq(sources, LAMBDA s : s.sourceType = "kaggle")

\* C20 (as stated): referenceSources of every context that
\* buildReferenceContext returns has at most 3 elements.
C20_AtMostThreeSources ==
    \A id \in Builds : ~req[id].threw => Len(SourcesBuilt(id)) <= TopK

\* C20 (amended): referenceSources has at most 4 elements: at most 3 Kaggle
\* sources, the top of the ranking, followed by at most one Hugging Face
\* source.
C20_AtMostFourSources ==
    \A id \in Builds :
        ~req[id].threw =>
            LET sources == SourcesBuilt(id)
                kaggle  == Len(KaggleSources(sources))
            IN /\ Len(sources) <= TopK + 1
               /\ kaggle <= TopK
               /\ \A i \in 1..kaggle : sources[i].sourceType = "kaggle"
               /\ \A i \in (kaggle + 1)..Len(sources) :
                     sources[i].sourceType = "huggingface"
               /\ Len(sources) - kaggle <= 1

\* a build over a listing of four datasets with Hugging Face samples
C20_Witness ==
    \E id \in Builds :
        /\ ~req[id].threw
        /\ Len(SourcesBuilt(id)) = TopK + 1
        /\ SourcesBuilt(id)[TopK + 1].sourceType = "huggingface"

\* ---- the loop of getKaggleReference over its ranked datasets ----
References == {id \in ReqIds : req[id].pc # "idle" /\ req[id].kind = "kaggleRef"}

\* the reference context can be built for this dataset
Buildable(ref) == ~normalizeDatasetRef(ref).threw

\* C21 (as stated): getKaggleReference stops at the first dataset whose
\* files give a non-empty sample: a request has at most one such sample and
\* returns as soon as it has it.
C21_StopsAtFirstSample ==
    \A id \in References :
        /\ Len(req[id].sampled) <= 1
        /\ req[id].sampled # <<>> => req[id].pc = "done"

\* the step in which sampleDatasetFiles returns a non-empty sample to id
SampleArrives(id) ==
    /\ req[id].pc = "sample"
    /\ req'[id].sampled # req[id].sampled

\* C21 (amended): the raw sample is written to the sample cache under the
\* dataset's reference first, whether or not the reference context can then
\* be built from it; the request stops at the first dataset whose sample
\* gives a reference context, caches that context under its topic and
\* fetches nothing more; a dataset whose context cannot be built is passed
\* over with its sample cached, and the loop goes on to the next dataset.
C21_StopsAtFirstReference ==
    [][\A id \in ReqIds :
          SampleArrives(id) =>
            LET r       == req[id]
                after   == req'[id]
                dataset == r.ranked[r.idx]
                key     == generateDatasetKey(dataset.ref)
                sample  == EntryOf(datasetCache', key)
            IN /\ after.sampled = Append(r.sampled, dataset.ref)
               /\ \A i \in 1..Len(r.sampled) : ~Buildable(r.sampled[i])
               /\ sample.present /\ sample.v.type = "sample" /\ sample.at = now
               /\ IF Buildable(dataset.ref)
                  THEN /\ after.pc = "done"
                       /\ after.idx = r.idx
                       /\ after.fetched = r.fetched
                       /\ after.result =
                             kaggleBuildReferenceContext(sample.v, dataset).value
                       /\ getSearchResults(r.topic.chars, r.description,
                                           searchCache', now) = after.result
                  ELSE /\ after.idx > r.idx \/ after.result = JsNull
                       /\ after.pc = "done" \/ after.pc = "download"
      ]_vars

\* the first dataset gave no sample, the second did, and the request
\* returned the reference built from it with the sample in the cache
C21_Witness ==
    \E id \in References :
        LET r == req[id]
        IN /\ r.pc = "done" /\ r.idx = 2
           /\ r.sampled = <<r.ranked[2].ref>>
           /\ r.result.type = "reference"
           /\ r.result.datasetRef = r.ranked[2].ref
           /\ getDatasetSample(r.ranked[2].ref, datasetCache, now).type = "sample"

\* the sample cache holds a live sample for the reference
LiveSample(ref) == Truthy(getDatasetSample(ref, datasetCache, now))

\* the step of request id runs the loop over the ranked datasets, from
\* the dataset LoopFrom(id) on
LoopRuns(id) ==
    /\ req[id].pc # "idle" /\ req[id].kind = "kaggleRef"
    /\ req'[id] # req[id]
    /\ \/ req[id].pc = "search" /\ req'[id].ranked # <<>>
       \/ req[id].pc = "download" /\ req'[id].pc # "sample"
       \/ /\ req[id].pc = "sample"
          /\ ~(req'[id].sampled # req[id].sampled
               /\ Buildable(req[id].ranked[req[id].idx].ref))

LoopFrom(id) == IF req[id].pc = "search" THEN 1 ELSE req[id].idx + 1

\* the loop of this step gets as far as dataset i: every dataset before it
\* had a cached sample from which no context could be built
LoopReaches(id, i) ==
    /\ i \in LoopFrom(id)..Len(req'[id].ranked)
    /\ \A j \in LoopFrom(id)..(i - 1) :
          LiveSample(req'[id].ranked[j].ref) /\ ~Buildable(req'[id].ranked[j].ref)

\* the request returns the context built from the cached sample of dataset
\* i without fetching anything
ReturnsFromCache(id, i) ==
    /\ req'[id].pc = "done"
    /\ req'[id].idx = i
    /\ req'[id].sampleHit
    /\ \A k \in (Len(req[id].sampled) + 1)..Len(req'[id].sampled) :
          req'[id].sampled[k] # req'[id].ranked[i].ref
    /\ req'[id].fetched \ req[id].fetched \subseteq {"searchKaggleDatasets"}
    /\ req'[id].result =
          kaggleBuildReferenceContext(
              getDatasetSample(req'[id].ranked[i].ref, datasetCache, now),
              req'[id].ranked[i]).value

Downloads(id, i) == req'[id].pc = "download" /\ req'[id].idx = i

\* C22 (as stated): when the loop comes to a dataset whose sample is in the
\* sample cache and has not expired, the request downloads and samples
\* nothing for it and returns the reference context built from the cached
\* sample.
C22_CachedSampleGivesReference ==
    [][\A id \in ReqIds :
          LoopRuns(id) =>
             \A i \in 1..Len(req'[id].ranked) :
                (LoopReaches(id, i) /\ LiveSample(req'[id].ranked[i].ref))
                => ReturnsFromCache(id, i)
      ]_vars

\* C22 (amended): when the loop comes to a dataset whose sample is in the
\* sample cache and has not expired, the request downloads and samples
\* nothing for that dataset; it returns the reference context built from
\* the cached sample when that context can be built, and goes on to the
\* next dataset when it cannot.  A dataset is downloaded only when the
\* cache has no live sample for it.
C22_CachedSampleSkipsFetch ==
    [][\A id \in ReqIds :
          LoopRuns(id) =>
             \A i \in 1..Len(req'[id].ranked) :
                /\ (LoopReaches(id, i) /\ LiveSample(req'[id].ranked[i].ref)) =>
                      /\ ~Downloads(id, i)
                      /\ req'[id].sampleHit
                      /\ Buildable(req'[id].ranked[i].ref) => ReturnsFromCache(id, i)
                      /\ ~Buildable(req'[id].ranked[i].ref) => ~ReturnsFromCache(id, i)
                /\ (i >= LoopFrom(id) /\ Downloads(id, i)) =>
                      ~LiveSample(req'[id].ranked[i].ref)
      ]_vars

\* a request found the sample of its first dataset in the cache and
\* returned the reference built from it after the search alone
C22_Witness ==
    \E id \in References :
        /\ req[id].pc = "done" /\ req[id].sampleHit /\ ~req[id].searchHit
        /\ req[id].fetched = {"searchKaggleDatasets"}
        /\ req[id].sampled = <<>>
        /\ req[id].idx = 1
        /\ req[id].result.type = "reference"

\* ---- the two sources of buildReferenceContext ----
StringBuilds == {id \in Builds : req[id].topic.type = "string"}

AskedKaggle(r) == r.searchHit \/ "searchKaggleMetadata" \in r.fetched
AskedHuggingFace(r) == r.sampleHit \/ "searchHuggingFaceDatasets" \in r.fetched

\* C23: a source that fails or finds nothing is skipped without aborting
\* the other: every build asks both Kaggle and Hugging Face, whatever the
\* first one gave; the Hugging Face samples appear in the context when the
\* Kaggle search failed or was empty, and the ranked Kaggle datasets are
\* kept, in their order, when Hugging Face gave nothing.
C23_SourcesIndependent ==
    \A id \in StringBuilds :
        LET r       == req[id]
            sources == r.result.referenceSources
            kaggle  == Len(r.ranked)
        IN /\ ~r.threw
           /\ AskedKaggle(r) /\ AskedHuggingFace(r)
           /\ Len(sources) = kaggle + (IF Truthy(r.samples) THEN 1 ELSE 0)
           /\ \A i \in 1..kaggle :
                 /\ sources[i].sourceType = "kaggle"
                 /\ sources[i].datasetName = r.ranked[i].title
           /\ Truthy(r.samples) =>
                 /\ sources[kaggle + 1].sourceType = "huggingface"
                 /\ sources[kaggle + 1].datasetName = r.samples.datasetName
                 /\ r.result.columnPatterns = extractColumnPatterns(r.samples)

\* the Kaggle search timed out and the context has the Hugging Face source
C23_Witness ==
    \E id \in StringBuilds :
        LET r == req[id]
        IN /\ "searchKaggleMetadata" \in r.fetched /\ r.ranked = <<>>
           /\ ~r.searchHit /\ ~r.sampleHit
           /\ "fetchHuggingFaceSamples" \in r.fetched
           /\ Len(r.result.referenceSources) = 1
           /\ r.result.referenceSources[1].sourceType = "huggingface"

\* the finished or running getKaggleReference requests other than id that
\* use the search key of id
SameKey(id) ==
    {a \in References \ {id} :
        /\ req[a].topic.type = "string" /\ req[id].topic.type = "string"
        /\ generateSearchKey(req[a].topic.chars, req[a].description)
              = generateSearchKey(req[id].topic.chars, req[id].description)}
\* id arrived while the request a had not returned
Overlaps(id, a) == id = "r2" /\ a \notin req[id].after
SeqSet(s) == {s[i] : i \in 1..Len(s)}
\* the samples that sampleDatasetFiles can return for a candidate
WholeSamples(ref) ==
    {sampleDatasetFiles(ref, up).value : up \in {u \in PipeSampleUps : u.kind = "ok"}}
\* the candidate whose sample gave the reference that id returned
Chosen(id) == req[id].ranked[req[id].idx]

\* C25: a getKaggleReference that arrives while another one for the same
\* key is still running does not wait for it and does not find its result:
\* it calls the search itself; and what a request reads from a cache is one
\* whole value another request wrote: a search hit returns the reference
\* another request returned, and a reference built from a cached sample is
\* built from a whole sample that another request fetched for that candidate
C25_NoSingleFlightWholeReads ==
    \A id \in References :
        LET r == req[id]
        IN /\ \A a \in SameKey(id) :
                 Overlaps(id, a) =>
                    /\ ~r.searchHit
                    /\ SearchReachesCli(JsString(r.topic.chars \o <<" ">>
                                                 \o r.description))
                          => "searchKaggleDatasets" \in r.fetched
           /\ r.searchHit =>
                 /\ r.pc = "done"
                 /\ \E a \in SameKey(id) :
                       /\ a \in r.after
                       /\ ~req[a].searchHit
                       /\ r.result = req[a].result
           /\ (r.pc = "done" /\ ~r.searchHit /\ Truthy(r.result)
               /\ Chosen(id).ref \notin SeqSet(r.sampled)) =>
                 /\ r.sampleHit
                 /\ \E a \in References \ {id} :
                       Chosen(id).ref \in SeqSet(req[a].sampled)
                 /\ \E sample \in WholeSamples(Chosen(id).ref) :
                       r.result = kaggleBuildReferenceContext(sample, Chosen(id)).value

\* two requests for "shop" ran at the same time and each searched,
\* downloaded and sampled on its own
C25_Witness ==
    /\ req["r1"].pc = "done" /\ req["r2"].pc = "done"
    /\ req["r1"].kind = "kaggleRef" /\ req["r2"].kind = "kaggleRef"
    /\ req["r1"].topic = JsString(sShop) /\ req["r2"].topic = JsString(sShop)
    /\ req["r2"].after = {}
    /\ \A id \in ReqIds :
          /\ req[id].fetched = {"searchKaggleDatasets", "downloadDataset",
                                "sampleDatasetFiles"}
          /\ ~req[id].searchHit /\ ~req[id].sampleHit
          /\ req[id].result.type = "reference"
          /\ req[id].sampled # <<>>
    /\ Chosen("r1").ref = Chosen("r2").ref

Started == {id \in ReqIds : req[id].pc # "idle"}
StringTopics == {req[id].topic.chars : id \in {s \in Started : req[s].topic.type = "string"}}
\* the references of the candidates a request has had before it
CandidateRefs ==
    UNION {{req[id].ranked[i].ref : i \in 1..Len(req[id].ranked)} : id \in Started}
        \cup SeqSet(HfIds)
Normalized(s) == s = Trim(ToLowerCase(s))
Prefixed(prefix, s) == Len(s) >= Len(prefix) /\ SubSeq(s, 1, Len(prefix)) = prefix
Unprefixed(prefix, s) == SubSeq(s, Len(prefix) + 1, Len(s))
\* the key is the prefix followed by the normalized topic of a request
TopicKey(prefix, key) ==
    /\ Prefixed(prefix, key)
    /\ Normalized(Unprefixed(prefix, key))
    /\ \E topic \in StringTopics : Unprefixed(prefix, key) = Trim(ToLowerCase(topic))

\* C27 as stated: every key of the sample cache is made of the reference of
\* a candidate dataset, and every key of the search cache of a normalized
\* topic
C27_SampleKeysAreReferences ==
    /\ \A key \in DOMAIN datasetCache :
          \E ref \in CandidateRefs : key \in {ref, DatasetPrefix \o ref}
    /\ \A key \in DOMAIN searchCache :
          TopicKey(SearchPrefix, key) \/ TopicKey(KaggleMetadataPrefix, key)

\* C27 amended: a key of the sample cache is "dataset:" and the reference of
\* a Kaggle candidate that a request has sampled, or "hf_samples:" and the
\* normalized topic of a build, whichever Hugging Face dataset the samples
\* came from; a key of the search cache is "search:" or "kaggle_metadata:"
\* and the normalized topic of a request
C27_KeysOfTheCaches ==
    /\ \A key \in DOMAIN datasetCache :
          \/ \E id \in References :
                \E ref \in SeqSet(req[id].sampled) : key = DatasetPrefix \o ref
          \/ /\ TopicKey(HfSamplesPrefix, key)
             /\ \E id \in Started :
                   /\ req[id].kind = "builder"
                   /\ "fetchHuggingFaceSamples" \in req[id].fetched
                   /\ key = HfSamplesPrefix \o Trim(ToLowerCase(req[id].topic.chars))
    /\ \A key \in DOMAIN searchCache :
          TopicKey(SearchPrefix, key) \/ TopicKey(KaggleMetadataPrefix, key)

\* both caches hold an entry of each kind, written for " SHOP "
C27_Witness ==
    /\ \E ref \in CandidateRefs : (DatasetPrefix \o ref) \in DOMAIN datasetCache
    /\ (HfSamplesPrefix \o sShop) \in DOMAIN datasetCache
    /\ (SearchPrefix \o sShop) \in DOMAIN searchCache
    /\ (KaggleMetadataPrefix \o sShop) \in DOMAIN searchCache
    /\ \A id \in ReqIds : req[id].topic = JsString(sShopPadded)

\* C29: a getKaggleReference that follows, within the hour, one for the same
\* normalized topic with another description that returned a reference
\* returns that reference from the search cache: it runs no search and
\* ranks nothing of its own
C29_DescriptionIgnored ==
    \A r1 \in ReqIds, r2 \in ReqIds :
        (/\ Repeats(r1, r2, req[r1].doneAt, SearchStdTTL)
         /\ req[r1].kind = "kaggleRef"
         /\ req[r1].description # req[r2].description
         /\ req[r1].result.type = "reference")
            => /\ req[r2].searchHit
               /\ req[r2].result = req[r1].result
               /\ req[r2].fetched = {}
               /\ req[r2].ranked = <<>>

\* "shop" with the description "data" returned the reference of "shop
\* data", the first candidate of its ranking; " SHOP " without a description
\* then returned the same reference, though its own ranking of the same
\* list has another dataset first
C29_Witness ==
    /\ Repeats("r1", "r2", req["r1"].doneAt, SearchStdTTL)
    /\ req["r1"].kind = "kaggleRef"
    /\ req["r1"].topic = JsString(sShop) /\ req["r1"].description = sData
    /\ req["r2"].topic = JsString(sShopPadded) /\ req["r2"].description = <<>>
    /\ req["r2"].searchHit
    /\ req["r2"].result = req["r1"].result
    /\ req["r1"].result.type = "reference"
    /\ req["r1"].idx = 1
    /\ req["r1"].ranked = rankDatasets(JsArray(CatSmall), sShop, sData).value
    /\ rankDatasets(JsArray(CatSmall), sShopPadded, <<>>).value[1].ref
          # req["r1"].result.datasetRef

\* the entries of a store that a get at this time can still return
Live(entries, time) ==
    {<<k, entries[k]>> : k \in {x \in DOMAIN entries : ~NcExpired(entries[x], time)}}
LiveKept ==
    /\ Live(searchCache', now') = Live(searchCache, now)
    /\ Live(datasetCache', now') = Live(datasetCache, now)
\* a step of getKaggleReference in which no sample arrives and no reference
\* is returned
FruitlessStep(id) ==
    /\ req'[id] # req[id]
    /\ req'[id].kind = "kaggleRef"
    /\ req'[id].sampled = (IF req[id].pc = "idle" THEN <<>> ELSE req[id].sampled)
    /\ req'[id].result.type # "reference"
\* the step in which getKaggleMetadata learns that the search found nothing
EmptyMetadataStep(id) ==
    /\ req[id].pc = "km_search"
    /\ req'[id].pc # "km_search"
    /\ req'[id].ranked = <<>>
\* the request found nothing in the search cache and no candidate gave it a
\* sample, fetched or cached
NoSample(r) == ~r.searchHit /\ r.sampled = <<>> /\ ~r.sampleHit
CallsSearch(r) ==
    SearchReachesCli(IF r.kind = "builder" THEN r.topic
                     ELSE JsString(r.topic.chars \o <<" ">> \o r.description))
       => (IF r.kind = "builder" THEN "searchKaggleMetadata"
           ELSE "searchKaggleDatasets") \in r.fetched

\* C30: a getKaggleReference for which the search finds nothing, or no
\* candidate gives a sample, returns null, and none of its steps changes a
\* live entry of either cache; getKaggleMetadata changes none when its
\* search finds nothing; the request for the same topic that follows finds
\* no entry in the search cache and searches again
C30_FailuresNotCached ==
    /\ [](\A id \in ReqIds :
            /\ (req[id].pc = "done" /\ req[id].kind = "kaggleRef"
                /\ NoSample(req[id]))
                  => ~req[id].threw /\ req[id].result = JsNull
            /\ \A r1 \in ReqIds :
                  (/\ Repeats(r1, id, req[r1].doneAt, SearchStdTTL)
                   /\ ~req[r1].searchHit
                   /\ \/ req[r1].kind = "kaggleRef" /\ req[r1].result = JsNull
                      \/ req[r1].kind = "builder" /\ req[r1].ranked = <<>>)
                     => ~req[id].searchHit /\ CallsSearch(req[id]))
    /\ [][\A id \in ReqIds :
            (FruitlessStep(id) \/ EmptyMetadataStep(id)) => LiveKept]_vars

\* every download of the first request for "shop" failed and it returned
\* null with both caches empty; the second request searched again
C30_Witness ==
    /\ Repeats("r1", "r2", req["r1"].doneAt, SearchStdTTL)
    /\ req["r1"].kind = "kaggleRef"
    /\ req["r1"].topic = JsString(sShop)
    /\ req["r1"].result = JsNull
    /\ req["r1"].ranked # <<>>
    /\ req["r1"].idx = Len(req["r1"].ranked)
    /\ "downloadDataset" \in req["r1"].fetched
    /\ NoSample(req["r1"])
    /\ "searchKaggleDatasets" \in req["r2"].fetched
    /\ ~req["r2"].searchHit
    /\ searchCache = EmptyStore /\ datasetCache = EmptyStore

(***************************************************************************)
(* Properties of the semantic hints (HintSpec)                             *)
(***************************************************************************)
HintsRan == fnOut # NotRun /\ ~fnOut.threw
DomainOrder == CatalogHints \o SocialHints \o UserHints \o SalesHints
\* where a hint stands in the order of the pushes: the twelve domain hints,
\* the column list, the value ranges
PushRank(h) ==
    IF h.text = TypicalRangeText THEN Len(DomainOrder) + 2
    ELSE IF h.text = CommonColumnsText THEN Len(DomainOrder) + 1
    ELSE CHOOSE i \in 1..Len(DomainOrder) : DomainOrder[i] = h
IsRangeHint(h) == h.text = TypicalRangeText

\* C26: generateSemanticHints returns at most 10 hints; they are the hints
\* that were pushed, all of them or the first 10; the domain hints come in
\* the order of the tests, then the column list, then the value ranges in
\* the order of the columns
C26_FirstTenHints ==
    HintsRan =>
        LET out     == fnOut.value
            pushed  == PushedHints(fnIn.a1, fnIn.a2)
            ranged  == FilterSeq(fnIn.a2.columnPatterns, HasRange)
            ranges  == FilterSeq(out, IsRangeHint)
        IN /\ Len(out) <= 10
           /\ Len(pushed) <= 10 => out = pushed
           /\ Len(pushed) > 10 => out = SubSeq(pushed, 1, 10)
           /\ \A i \in 1..Len(out), j \in 1..Len(out) :
                 i < j => /\ PushRank(out[i]) <= PushRank(out[j])
                          /\ ~IsRangeHint(out[j]) => PushRank(out[i]) < PushRank(out[j])
           /\ Len(ranges) <= Len(ranged)
           /\ \A k \in 1..Len(ranges) : ranges[k].columns = <<ranged[k].name>>

\* three domains, the column list and three value ranges were pushed: the
\* ten hints returned end with the column list
C26_Witness ==
    /\ HintsRan
    /\ Len(PushedHints(fnIn.a1, fnIn.a2)) = 13
    /\ Len(fnOut.value) = 10
    /\ fnOut.value[1] = CatalogHints[1]
    /\ fnOut.value[10].text = CommonColumnsText

(***************************************************************************)
(* Properties of the races (RaceSpec)                                      *)
(***************************************************************************)
\* the step in which a timer settles the call raced against it
TimerSettles == cli'.timedOut # cli.timedOut
\* the step in which a command or a timer ends with nobody waiting for it
EndsLate == cli'.late # cli.late
\* what the request would do had the awaited command failed at this instant
OrdinaryFailure ==
    Settled(req["r1"], Up("error"), searchCache, datasetCache, now')

\* C24: a call whose timer fires first goes on exactly as if its command had
\* failed: the search gives no candidates and the request returns null, a
\* download is skipped without sampling and the loop moves on, the request
\* does not throw; and when the command, or a timer, ends after its race was
\* settled, no request and no cache entry changes.
C24_TimeoutIsOrdinaryFailure ==
    [][/\ TimerSettles =>
            LET r == req["r1"]
                after == req'["r1"]
                out == OrdinaryFailure
            IN /\ after = Finished(out.r, now')
               /\ searchCache' = out.sc /\ datasetCache' = out.dc
               /\ ~after.threw
               /\ r.pc = "search" => after.pc = "done" /\ after.result = JsNull
               /\ r.pc = "download" =>
                     /\ after.fetched = r.fetched
                     /\ after.sampled = r.sampled
                     /\ \/ after.pc = "download" /\ after.idx = r.idx + 1
                        \/ /\ after.pc = "done" /\ after.result = JsNull
                           /\ r.idx = Len(r.ranked)
       /\ EndsLate => UNCHANGED <<req, searchCache, datasetCache>>
      ]_vars

\* the download of the first candidate timed out, the request returned the
\* reference of the second, and the first download then completed
C24_Witness ==
    /\ [fn |-> "downloadDataset", idx |-> 1] \in cli.timedOut
    /\ [what |-> "command", fn |-> "downloadDataset", idx |-> 1, kind |-> "ok"]
          \in cli.late
    /\ req["r1"].pc = "done" /\ Truthy(req["r1"].result)
    /\ req["r1"].idx = 2
    /\ searchCache # EmptyStore /\ datasetCache # EmptyStore

(***************************************************************************)
(* Properties of the fetchers (FetchSpec)                                  *)
(***************************************************************************)
FetchRan == fnOut # NotRun

Fetchers == {"searchKaggleDatasets", "searchKaggleMetadata", "downloadDataset",
             "sampleDatasetFiles", "searchHuggingFaceDatasets",
             "fetchHuggingFaceSamples", "fetchDatasetMetadata"}
SoftFetchers == Fetchers \ {"downloadDataset", "fetchDatasetMetadata"}

\* the upstream failed: a network failure, a timeout or a malformed payload
CallFailed == fnIn.up.kind \in {"error", "timeout", "malformed"}

EmptyOrNone(result) ==
    /\ ~result.threw
    /\ result.value \in {JsArray(<<>>), JsNull}

\* C2 as stated: none of the seven fetchers raises to its caller; a network
\* failure, timeout or malformed payload yields an empty list or none
C2_NoFetcherThrows ==
    (FetchRan /\ fnIn.fn \in Fetchers /\ CallFailed) => EmptyOrNone(fnOut)

\* C2 amended: the five search and sample fetchers return an empty list or
\* none on failure; downloadDataset and fetchDatasetMetadata rethrow, and the
\* caller of fetchDatasetMetadata, the API getDatasetPreview, returns none
C2_SoftFetchersAndRethrow ==
    /\ (FetchRan /\ fnIn.fn \in SoftFetchers /\ CallFailed) => EmptyOrNone(fnOut)
    /\ (FetchRan /\ fnIn.fn \in Fetchers \ SoftFetchers /\ CallFailed)
           => fnOut.threw
    /\ (FetchRan /\ fnIn.fn = "getDatasetPreviewApi"
          /\ fnIn.up.meta.kind # "ok") => fnOut = Ret(JsNull)

\* a search that reached the Kaggle CLI and timed out returned the empty list
C2_Witness ==
    /\ FetchRan
    /\ fnIn.fn = "searchKaggleDatasets"
    /\ fnIn.a1 = sShopPadded
    /\ fnIn.up.kind = "timeout"
    /\ fnOut = Ret(JsArray(<<>>))

\* the preview's upstream failed: the request failed, the page held no
\* embedded data or data that does not parse, or there was no CSV/JSON file
PreviewFetchFailed ==
    IF fnIn.fn = "getDatasetPreviewScrape" THEN PreviewFailed(fnIn.up)
    ELSE \/ fnIn.up.meta.kind # "ok"
         \/ fnIn.up.files.kind # "ok"
         \/ fnIn.up.sample.kind # "ok"

\* C3: when the preview fetch fails the preview function returns none, so no
\* reference rows or columns exist for the candidate
C3_FailedPreviewIsNone ==
    (FetchRan /\ fnIn.fn \in {"getDatasetPreviewScrape", "getDatasetPreviewApi"}
       /\ PreviewFetchFailed) => fnOut = Ret(JsNull)

====
